---------------------------- MODULE Spec2Model ----------------------------
(***************************************************************************)
(* A model of cyverse-de/user-info.                                        *)
(*                                                                         *)
(* Part 2 (below the bags store): the envelope normalizer convertPrefs of  *)
(* src/searchesdb.go, a pure function, applied to bounded stored payloads.  *)
(*                                                                         *)
(* Part 1: the bags store (src/bagsdb.go).  The tables `bags` and          *)
(* `default_bags` are sets of rows; every SQL statement of BagsAPI is an   *)
(* operator on these sets, and every BagsAPI call is a sequence of atomic  *)
(* statement steps taken by one of the request processes, so that calls    *)
(* of different requests interleave between statements (the code opens no  *)
(* transaction).  A statement, or the user-ID lookup before it, may fail;  *)
(* a failed statement changes nothing.                                     *)
(***************************************************************************)
EXTENDS Integers, FiniteSets, Sequences, TLC

\* ------------------------------------------------------------------ bounds
MaxCalls == 2      \* BagsAPI calls started in one behaviour
MaxFaults == 1     \* store failures injected in one behaviour
MaxDepth == 2      \* nesting depth of the JSON objects in stored payloads
MaxOtherDepth == 0 \* nesting depth of the objects under a key other than
                   \*   the wrapper key
MaxAlerts == 2     \* rows in global_alerts
MaxRequests == 2   \* preferences requests started in one behaviour
NumProcs == 2      \* requests served at the same time
MaxNameLen == 3    \* characters of a username given to AddUsernameSuffix
MaxSearches == 2   \* rows of one user in user_saved_searches

Procs == 1..NumProcs

\* ------------------------------------------------------------- the domain
\* Existing users (rows of the `users` table, which this service never writes).
Usernames == {"alice", "bob"}

\* The zero value of a Go string used as a username: no user has it.
NoUsername == ""

\* queries.UserID: the users.id of a username; no row of any table holds the
\* value given for a name that is no user's.
UserID(name) ==
    CASE name = "alice" -> "id-alice"
      [] name = "bob" -> "id-bob"
      [] OTHER -> "no id"

\* The zero value of a Go string used as a bag ID: no INSERT returns it.
NoBagID == 0

\* A well-formed bag ID that no INSERT of the behaviour generates.
StrayBagID == MaxCalls + 1

\* JSON texts a caller may send as bag contents.
Bodies == {"{\"a\":1}"}

\* json.Marshal(map[string]interface{}{}) in createDefaultBag.
DefaultContents == "{}"

\* The zero value of BagRecord.
ZeroRecord == [ID |-> NoBagID, Contents |-> "", UserID |-> ""]

Ops == {"GetDefaultBag", "UpdateDefaultBag", "DeleteDefaultBag",
        "AddBag", "UpdateBag", "DeleteBag", "DeleteAllBags"}

VARIABLES
    bags,          \* table bags: rows [id, contents, user_id]
    default_bags,  \* table default_bags: rows [user_id, bag_id]
    nextBagID,     \* the id the next INSERT INTO bags generates
    pc,            \* per process: the statement it is about to run
    op,            \* per process: the BagsAPI call it serves
    username,      \* per process: argument username
    bagID,         \* per process: argument / local bagID
    contents,      \* per process: argument contents
    hasDefault,    \* per process: local hasDefault of GetDefaultBag
    record,        \* per process: local record of GetDefaultBag
    err,           \* per process: the error the call returns ("nil": none)
    faults,        \* store failures injected so far
    calls,         \* calls started so far
    pre,           \* per process: the tables when the call started, kept
                   \*   while no other call overlaps it (history)
    last,          \* the call that returned last, when it was a GetDefaultBag
                   \*   or DeleteDefaultBag that no call overlapped and that
                   \*   returned no error (history)
    payload,       \* normalizer: record.Preferences, the stored text
    wrap,          \* normalizer: the argument wrap
    converted,     \* normalizer: what convertPrefs returned, once it ran
    jsoned,        \* normalizer: the bytes built from converted
    wrapAgain,     \* normalizer: wrap of a second call, on jsoned
    again,         \* normalizer: what that second call returned
    global_alerts, \* table global_alerts: how many rows hold each value
    now,           \* alerts: CURRENT_TIMESTAMP
    timezone,      \* alerts: current_setting('TIMEZONE'), hours east of UTC
    alertReq,      \* alerts: the request served last (its fields are kept
                   \*   unless the store call failed)
    alertResp,     \* alerts: the response to it
    alertsBefore,  \* alerts: global_alerts when it arrived (history)
    user_preferences, \* table user_preferences: per user, the texts of the
                   \*   user's rows
    prefPc,        \* per preferences request: the statement it is about to run
    prefReq,       \* per preferences request: method, username, body
    prefHas,       \* per preferences request: local hasPrefs
    prefResp,      \* per preferences request: what it wrote to the response
    prefAlone,     \* per preferences request: no other request overlapped it
                   \*   (history)
    prefBefore,    \* user_preferences when the latest request arrived (history)
    prefLog,       \* per preferences request: the store operations it has
                   \*   called, in order (history)
    prefLast,      \* the preferences request that returned last (history)
    prefFaults,    \* preferences: store failures injected so far
    prefCalls,     \* preferences: requests started so far
    rawUsername,   \* suffix: the argument username of AddUsernameSuffix
    userDomain,    \* suffix: BagsApp.userDomain
    suffixed,      \* suffix: what AddUsernameSuffix returned, once it ran
    resuffixed,    \* suffix: what it returned for that result
    user_saved_searches, \* table user_saved_searches: per user, the texts of
                   \*   the user's rows
    searchCall,    \* searches: the SearchesDB call made last, the store
                   \*   access that failed in it and the error it returned
    appReq,        \* bags handlers: the request served last
    appResp,       \* bags handlers: the status and the body written for it
    appLog         \* bags handlers: the BagsAPI calls the handler made for it

bagVars == <<bags, default_bags, nextBagID, pc, op, username, bagID, contents,
             hasDefault, record, err, faults, calls, pre, last>>

normVars == <<payload, wrap, converted, jsoned, wrapAgain, again>>

alertVars == <<global_alerts, now, timezone, alertReq, alertResp, alertsBefore>>

prefVars == <<user_preferences, prefPc, prefReq, prefHas, prefResp, prefAlone,
              prefBefore, prefLog, prefLast, prefFaults, prefCalls>>

suffixVars == <<rawUsername, userDomain, suffixed, resuffixed>>

searchVars == <<user_saved_searches, searchCall>>

appVars == <<appReq, appResp, appLog>>

vars == <<bagVars, normVars, alertVars, prefVars, suffixVars, searchVars,
          appVars>>

NoSnap == [none |-> TRUE]
NoCall == [op |-> "none", username |-> "", ID |-> NoBagID]

\* --------------------------------------------------------- SQL statements
CountDefaultBagsNoJoin(d, name) ==
    Cardinality({r \in d : r.user_id = name})

\* SELECT count(*) FROM default_bags d, users u WHERE d.user_id = u.id
\*    AND u.username = $1
CountDefaultBags(d, name) ==
    Cardinality({r \in d : r.user_id = UserID(name)})

\* INSERT INTO bags (contents, user_id) VALUES ($1, $2) RETURNING id
InsertBag(b, id, c, uid) ==
    b \cup {[id |-> id, contents |-> c, user_id |-> uid]}

InsertDefaultBagNoConflict(d, uid, bid) ==
    d \cup {[user_id |-> uid, bag_id |-> bid]}

\* INSERT INTO default_bags VALUES ($1, $2)
\*    ON CONFLICT (user_id) DO UPDATE SET bag_id = $2
UpsertDefaultBag(d, uid, bid) ==
    {r \in d : r.user_id # uid} \cup {[user_id |-> uid, bag_id |-> bid]}

UpdateBagRowsAnyOwner(b, c, bid, uid) ==
    {IF r.id = bid THEN [r EXCEPT !.contents = c] ELSE r : r \in b}

UpdateBagRowsAnyID(b, c, bid, uid) ==
    {IF r.user_id = uid THEN [r EXCEPT !.contents = c] ELSE r : r \in b}

\* UPDATE ONLY bags SET contents = $1 WHERE id = $2 and user_id = $3
UpdateBagRows(b, c, bid, uid) ==
    {IF r.id = bid /\ r.user_id = uid THEN [r EXCEPT !.contents = c] ELSE r
        : r \in b}

\* DELETE FROM ONLY bags WHERE id = $1 and user_id = $2
DeleteBagRows(b, bid, uid) ==
    {r \in b : ~(r.id = bid /\ r.user_id = uid)}

\* DELETE FROM ONLY bags WHERE user_id = $1
DeleteUserBagRows(b, uid) ==
    {r \in b : r.user_id # uid}

\* SELECT b.id, b.contents, b.user_id FROM bags b
\*   JOIN default_bags d ON b.id = d.bag_id JOIN users u ON d.user_id = u.id
\*  WHERE u.username = $1
SelectDefaultBag(b, d, name) ==
    {r \in b : \E m \in d : m.bag_id = r.id /\ m.user_id = UserID(name)}

\* ------------------------------------------------------ BagsAPI functions
\* Each function takes the tables it reads, its arguments, and the outcome f
\* of its store accesses: "ok", or the access that fails ("UserID": the
\* queries.UserID lookup, "Exec"/"Query": the statement).  It returns the
\* tables it leaves and its Go return values; the error value names the
\* function that failed.

HasDefaultBagOffByOne(d, name, f) ==
    IF f = "Query"
    THEN [has |-> FALSE, err |-> "HasDefaultBag: store error"]
    ELSE [has |-> CountDefaultBags(d, name) > 1, err |-> "nil"]

\* BagsAPI.HasDefaultBag
HasDefaultBag(d, name, f) ==
    IF f = "Query"
    THEN [has |-> FALSE, err |-> "HasDefaultBag: store error"]
    ELSE [has |-> CountDefaultBags(d, name) > 0, err |-> "nil"]

\* BagsAPI.AddBag
AddBag(b, nxt, name, c, f) ==
    CASE f = "UserID" ->
           [bags |-> b, next |-> nxt, bagID |-> NoBagID,
            err |-> "AddBag: store error"]
      [] f = "Exec" ->
           [bags |-> b, next |-> nxt, bagID |-> NoBagID,
            err |-> "AddBag: store error"]
      [] OTHER ->
           [bags |-> InsertBag(b, nxt, c, UserID(name)), next |-> nxt + 1,
            bagID |-> nxt, err |-> "nil"]

\* BagsAPI.SetDefaultBag
SetDefaultBag(d, name, bid, f) ==
    CASE f = "UserID" ->
           [default_bags |-> d, err |-> "SetDefaultBag: store error"]
      [] f = "Exec" ->
           [default_bags |-> d, err |-> "SetDefaultBag: store error"]
      [] OTHER ->
           [default_bags |-> UpsertDefaultBag(d, UserID(name), bid),
            err |-> "nil"]

\* BagsAPI.UpdateBag
UpdateBag(b, name, bid, c, f) ==
    CASE f = "UserID" -> [bags |-> b, err |-> "UpdateBag: store error"]
      [] f = "Exec" -> [bags |-> b, err |-> "UpdateBag: store error"]
      [] OTHER -> [bags |-> UpdateBagRows(b, c, bid, UserID(name)),
                   err |-> "nil"]

\* BagsAPI.DeleteBag
DeleteBag(b, name, bid, f) ==
    CASE f = "UserID" -> [bags |-> b, err |-> "DeleteBag: store error"]
      [] f = "Exec" -> [bags |-> b, err |-> "DeleteBag: store error"]
      [] OTHER -> [bags |-> DeleteBagRows(b, bid, UserID(name)),
                   err |-> "nil"]

\* BagsAPI.DeleteAllBags
DeleteAllBags(b, name, f) ==
    CASE f = "UserID" -> [bags |-> b, err |-> "DeleteAllBags: store error"]
      [] f = "Exec" -> [bags |-> b, err |-> "DeleteAllBags: store error"]
      [] OTHER -> [bags |-> DeleteUserBagRows(b, UserID(name)),
                   err |-> "nil"]

\* The tail of BagsAPI.GetDefaultBag: QueryRowContext(...).Scan(&record...).
\* Scan of a query with no row is sql.ErrNoRows.
ScanDefaultBag(b, d, name, f) ==
    LET rows == SelectDefaultBag(b, d, name) IN
    CASE f = "Query" ->
           [record |-> ZeroRecord, err |-> "GetDefaultBag: store error"]
      [] rows = {} ->
           [record |-> ZeroRecord, err |-> "GetDefaultBag: sql.ErrNoRows"]
      [] OTHER ->
           LET r == CHOOSE x \in rows : TRUE IN
           [record |-> [ID |-> r.id, Contents |-> r.contents,
                        UserID |-> r.user_id],
            err |-> "nil"]

\* Errors that an injected store failure produces (sql.ErrNoRows is not one:
\* it is the store's answer to a query without rows).
IsFault(e) == e \notin {"nil", "GetDefaultBag: sql.ErrNoRows"}

\* ------------------------------------------------------------ alerts: data
\* Instants, counted in hours. ZeroTime is time.Time{}, for which IsZero()
\* holds.
ZeroTime == 0

\* The instants the clock shows and the dates of the requests.
Times == {1, 2}

AlertTexts == {"maintenance", "outage"}

\* sql.NullTime
NullTime(t, valid) == [Time |-> t, Valid |-> valid]

NullValue == NullTime(ZeroTime, FALSE)

\* *time.Time
NilTime == [nil |-> TRUE]

PtrTime(t) == [nil |-> FALSE, t |-> t]

\* A row of global_alerts.
AlertRow(start, end, text) ==
    [start_date |-> start, end_date |-> end, alert |-> text]

AlertRows ==
    {AlertRow(st, NullTime(e, TRUE), x) :
        st \in {NullValue} \cup {NullTime(t, TRUE) : t \in Times},
        e \in Times, x \in AlertTexts}

\* The table is a function from the row values it holds to the number of
\* rows with that value.
EmptyTable == [r \in {} |-> 0]

CopiesOf(table, r) == IF r \in DOMAIN table THEN table[r] ELSE 0

RowCount(table) ==
    LET RECURSIVE Sum(_)
        Sum(R) == IF R = {} THEN 0
                  ELSE LET r == CHOOSE x \in R : TRUE
                       IN table[r] + Sum(R \ {r})
    IN Sum(DOMAIN table)

NoAlertReq == [op |-> "none"]

NoAlertResp == [kind |-> "none"]

\* No alert is stored and no alerts request was served.
AlertsIdle ==
    /\ global_alerts = EmptyTable
    /\ now = 1
    /\ timezone = 0
    /\ alertReq = NoAlertReq
    /\ alertResp = NoAlertResp
    /\ alertsBefore = EmptyTable

\* ------------------------------------------------------- preferences: data
\* The requests being served at the same time.
PrefProcs == {1, 2}

\* The users table: alice is a user, bob is not.
Users == {"alice"}

NoPrefReq == [method |-> "none"]

NoPrefResp == [kind |-> "none"]

\* No preferences are stored and no preferences request is being served.
PrefsIdle ==
    /\ user_preferences = [u \in Users |-> <<>>]
    /\ prefPc = [p \in PrefProcs |-> "idle"]
    /\ prefReq = [p \in PrefProcs |-> NoPrefReq]
    /\ prefHas = [p \in PrefProcs |-> FALSE]
    /\ prefResp = [p \in PrefProcs |-> NoPrefResp]
    /\ prefAlone = [p \in PrefProcs |-> TRUE]
    /\ prefBefore = user_preferences
    /\ prefLog = [p \in PrefProcs |-> <<>>]
    /\ prefLast = NoPrefReq
    /\ prefFaults = 0
    /\ prefCalls = 0

\* ------------------------------------------------------------ suffix: data
\* Strings are sequences of characters. NoString: the function has not run;
\* String(str): it returned str.
NoString == [ran |-> FALSE]

String(str) == [ran |-> TRUE, str |-> str]

\* AddUsernameSuffix has not been called; userDomain is the default of main.
SuffixIdle ==
    /\ rawUsername = <<>>
    /\ userDomain = <<"d">>
    /\ suffixed = NoString
    /\ resuffixed = NoString

\* ---------------------------------------------------------- searches: data
NoSearchCall == [op |-> "none"]

\* No saved searches are stored and no SearchesDB call was made.
SearchesIdle ==
    /\ user_saved_searches = [u \in Usernames |-> <<>>]
    /\ searchCall = NoSearchCall

\* ------------------------------------------------------ bags handlers: data
NoAppReq == [handler |-> "none"]

\* The response before the handler has written to it: no status, no body.
NoResponse == [status |-> 0, body |-> <<>>]

\* No bags request was served.
AppIdle ==
    /\ appReq = NoAppReq
    /\ appResp = NoResponse
    /\ appLog = <<>>

\* ------------------------------------------------------------------- Init
\* No request is being served and the bags tables are empty.
BagsInit ==
    /\ bags = {}
    /\ default_bags = {}
    /\ nextBagID = 1
    /\ pc = [p \in Procs |-> "idle"]
    /\ op = [p \in Procs |-> "none"]
    /\ username = [p \in Procs |-> ""]
    /\ bagID = [p \in Procs |-> NoBagID]
    /\ contents = [p \in Procs |-> ""]
    /\ hasDefault = [p \in Procs |-> FALSE]
    /\ record = [p \in Procs |-> ZeroRecord]
    /\ err = [p \in Procs |-> "nil"]
    /\ faults = 0
    /\ calls = 0
    /\ pre = [p \in Procs |-> NoSnap]
    /\ last = NoCall

\* The normalizer at rest: nothing stored, convertPrefs not called.
NormIdle ==
    /\ payload = [kind |-> "empty"]
    /\ wrap = FALSE
    /\ converted = [kind |-> "not run"]
    /\ jsoned = [kind |-> "none"]
    /\ wrapAgain = FALSE
    /\ again = [kind |-> "not run"]

Init ==
    /\ BagsInit /\ NormIdle /\ AlertsIdle /\ PrefsIdle
    /\ SuffixIdle /\ SearchesIdle /\ AppIdle

\* ---------------------------------------------------------------- actions
\* The outcomes a store access may have: it works, or (while the fault
\* budget lasts) one of its accesses fails.
Outcomes(failures) == {"ok"} \cup (IF faults < MaxFaults THEN failures ELSE {})

Charge(f) == faults' = (IF f = "ok" THEN faults ELSE faults + 1)

DefaultOps == {"GetDefaultBag", "UpdateDefaultBag", "DeleteDefaultBag"}

FirstStatement(o) == IF o \in DefaultOps THEN "HasDefaultBag" ELSE o

\* The bag IDs a caller may name: every ID generated so far, and a stray one.
KnownBagIDs == (1..(nextBagID - 1)) \cup {StrayBagID}

\* A request process starts a BagsAPI call: the server hands a request to
\* the first free process (they are interchangeable).  Arguments the call
\* does not take stay at their zero value.
Call(p) ==
    /\ pc[p] = "idle"
    /\ \A q \in Procs : q < p => pc[q] # "idle"
    /\ calls < MaxCalls
    /\ \E o \in Ops, u \in Usernames, b \in KnownBagIDs, c \in Bodies :
        /\ op' = [op EXCEPT ![p] = o]
        /\ username' = [username EXCEPT ![p] = u]
        /\ bagID' = [bagID EXCEPT ![p] =
                        IF o \in {"UpdateBag", "DeleteBag"} THEN b ELSE NoBagID]
        /\ contents' = [contents EXCEPT ![p] =
                        IF o \in {"AddBag", "UpdateBag", "UpdateDefaultBag"}
                        THEN c ELSE ""]
        /\ pc' = [pc EXCEPT ![p] = FirstStatement(o)]
    /\ calls' = calls + 1
    /\ pre' = IF \A q \in Procs \ {p} : pc[q] = "idle"
              THEN [pre EXCEPT ![p] =
                       [bags |-> bags, default_bags |-> default_bags]]
              ELSE [q \in Procs |-> NoSnap]
    /\ UNCHANGED <<bags, default_bags, nextBagID, hasDefault, record, err,
                   faults, last>>
    /\ UNCHANGED <<normVars, alertVars, prefVars, suffixVars, searchVars,
                   appVars>>

\* Where a call goes once its GetDefaultBag part has returned (rec, e):
\* GetDefaultBag returns; UpdateDefaultBag and DeleteDefaultBag return the
\* error, or go on to UpdateBag / DeleteBag of the bag found.
AfterGetDefaultBag(p, rec, e) ==
    /\ record' = [record EXCEPT ![p] = rec]
    /\ err' = [err EXCEPT ![p] = e]
    /\ IF e = "nil" /\ op[p] # "GetDefaultBag"
       THEN /\ pc' = [pc EXCEPT ![p] =
                        IF op[p] = "UpdateDefaultBag" THEN "UpdateBag"
                                                      ELSE "DeleteBag"]
            /\ bagID' = [bagID EXCEPT ![p] = rec.ID]
       ELSE /\ pc' = [pc EXCEPT ![p] = "done"]
            /\ UNCHANGED bagID

\* GetDefaultBag: the HasDefaultBag check and the branch on it.
StepHasDefaultBag(p) ==
    /\ pc[p] = "HasDefaultBag"
    /\ \E f \in Outcomes({"Query"}) :
        LET r == HasDefaultBag(default_bags, username[p], f) IN
        /\ Charge(f)
        /\ hasDefault' = [hasDefault EXCEPT ![p] = r.has]
        /\ IF r.err # "nil"
           THEN AfterGetDefaultBag(p, ZeroRecord, r.err)
           ELSE /\ pc' = [pc EXCEPT ![p] =
                            IF r.has THEN "SelectDefaultBag"
                                     ELSE "createDefaultBag"]
                /\ UNCHANGED <<record, err, bagID>>
    /\ UNCHANGED <<bags, default_bags, nextBagID, op, username, contents,
                   calls, pre, last>>
    /\ UNCHANGED <<normVars, alertVars, prefVars, suffixVars, searchVars,
                   appVars>>

\* createDefaultBag up to and including its AddBag call.
StepCreateAddBag(p) ==
    /\ pc[p] = "createDefaultBag"
    /\ \E f \in Outcomes({"UserID", "Exec"}) :
        LET r == AddBag(bags, nextBagID, username[p], DefaultContents, f)
            rec == [ZeroRecord EXCEPT !.Contents = DefaultContents]
        IN
        /\ Charge(f)
        /\ bags' = r.bags
        /\ nextBagID' = r.next
        /\ IF r.err # "nil"
           THEN AfterGetDefaultBag(p, rec, r.err)
           ELSE /\ record' = [record EXCEPT ![p] = [rec EXCEPT !.ID = r.bagID]]
                /\ pc' = [pc EXCEPT ![p] = "SetDefaultBag"]
                /\ UNCHANGED <<err, bagID>>
    /\ UNCHANGED <<default_bags, op, username, contents, hasDefault, calls,
                   pre, last>>
    /\ UNCHANGED <<normVars, alertVars, prefVars, suffixVars, searchVars,
                   appVars>>

\* createDefaultBag from its SetDefaultBag call to its return; "UserID2" is
\* a failure of the user-ID lookup that follows SetDefaultBag.
StepCreateSetDefaultBag(p) ==
    /\ pc[p] = "SetDefaultBag"
    /\ \E f \in Outcomes({"UserID", "Exec", "UserID2"}) :
        LET r == SetDefaultBag(default_bags, username[p], record[p].ID, f) IN
        /\ Charge(f)
        /\ default_bags' = r.default_bags
        /\ IF r.err # "nil"
           THEN AfterGetDefaultBag(p, record[p], r.err)
           ELSE IF f = "UserID2"
           THEN AfterGetDefaultBag(p, record[p],
                                   "createDefaultBag: store error")
           ELSE AfterGetDefaultBag(p,
                    [record[p] EXCEPT !.UserID = UserID(username[p])], "nil")
    /\ UNCHANGED <<bags, nextBagID, op, username, contents, hasDefault,
                   calls, pre, last>>
    /\ UNCHANGED <<normVars, alertVars, prefVars, suffixVars, searchVars,
                   appVars>>

\* GetDefaultBag when HasDefaultBag answered true: the join query.
StepSelectDefaultBag(p) ==
    /\ pc[p] = "SelectDefaultBag"
    /\ \E f \in Outcomes({"Query"}) :
        LET r == ScanDefaultBag(bags, default_bags, username[p], f) IN
        /\ Charge(f)
        /\ AfterGetDefaultBag(p, r.record, r.err)
    /\ UNCHANGED <<bags, default_bags, nextBagID, op, username, contents,
                   hasDefault, calls, pre, last>>
    /\ UNCHANGED <<normVars, alertVars, prefVars, suffixVars, searchVars,
                   appVars>>

\* A call of AddBag by a caller of the API.
StepAddBag(p) ==
    /\ pc[p] = "AddBag"
    /\ \E f \in Outcomes({"UserID", "Exec"}) :
        LET r == AddBag(bags, nextBagID, username[p], contents[p], f) IN
        /\ Charge(f)
        /\ bags' = r.bags
        /\ nextBagID' = r.next
        /\ bagID' = [bagID EXCEPT ![p] = r.bagID]
        /\ err' = [err EXCEPT ![p] = r.err]
    /\ pc' = [pc EXCEPT ![p] = "done"]
    /\ UNCHANGED <<default_bags, op, username, contents, hasDefault, record,
                   calls, pre, last>>
    /\ UNCHANGED <<normVars, alertVars, prefVars, suffixVars, searchVars,
                   appVars>>

\* UpdateBag, called by a caller of the API or by UpdateDefaultBag.
StepUpdateBag(p) ==
    /\ pc[p] = "UpdateBag"
    /\ \E f \in Outcomes({"UserID", "Exec"}) :
        LET r == UpdateBag(bags, username[p], bagID[p], contents[p], f) IN
        /\ Charge(f)
        /\ bags' = r.bags
        /\ err' = [err EXCEPT ![p] = r.err]
    /\ pc' = [pc EXCEPT ![p] = "done"]
    /\ UNCHANGED <<default_bags, nextBagID, op, username, bagID, contents,
                   hasDefault, record, calls, pre, last>>
    /\ UNCHANGED <<normVars, alertVars, prefVars, suffixVars, searchVars,
                   appVars>>

\* DeleteBag, called by a caller of the API or by DeleteDefaultBag.
StepDeleteBag(p) ==
    /\ pc[p] = "DeleteBag"
    /\ \E f \in Outcomes({"UserID", "Exec"}) :
        LET r == DeleteBag(bags, username[p], bagID[p], f) IN
        /\ Charge(f)
        /\ bags' = r.bags
        /\ err' = [err EXCEPT ![p] = r.err]
    /\ pc' = [pc EXCEPT ![p] = "done"]
    /\ UNCHANGED <<default_bags, nextBagID, op, username, bagID, contents,
                   hasDefault, record, calls, pre, last>>
    /\ UNCHANGED <<normVars, alertVars, prefVars, suffixVars, searchVars,
                   appVars>>

StepDeleteAllBags(p) ==
    /\ pc[p] = "DeleteAllBags"
    /\ \E f \in Outcomes({"UserID", "Exec"}) :
        LET r == DeleteAllBags(bags, username[p], f) IN
        /\ Charge(f)
        /\ bags' = r.bags
        /\ err' = [err EXCEPT ![p] = r.err]
    /\ pc' = [pc EXCEPT ![p] = "done"]
    /\ UNCHANGED <<default_bags, nextBagID, op, username, bagID, contents,
                   hasDefault, record, calls, pre, last>>
    /\ UNCHANGED <<normVars, alertVars, prefVars, suffixVars, searchVars,
                   appVars>>

\* The call returns to its caller; its locals are gone.
Return(p) ==
    /\ pc[p] = "done"
    /\ last' = IF op[p] \in {"GetDefaultBag", "DeleteDefaultBag"}
                  /\ err[p] = "nil" /\ pre[p] # NoSnap
               THEN [op |-> op[p], username |-> username[p],
                     ID |-> record[p].ID]
               ELSE NoCall
    /\ pc' = [pc EXCEPT ![p] = "idle"]
    /\ op' = [op EXCEPT ![p] = "none"]
    /\ username' = [username EXCEPT ![p] = ""]
    /\ bagID' = [bagID EXCEPT ![p] = NoBagID]
    /\ contents' = [contents EXCEPT ![p] = ""]
    /\ hasDefault' = [hasDefault EXCEPT ![p] = FALSE]
    /\ record' = [record EXCEPT ![p] = ZeroRecord]
    /\ err' = [err EXCEPT ![p] = "nil"]
    /\ pre' = [pre EXCEPT ![p] = NoSnap]
    /\ UNCHANGED <<bags, default_bags, nextBagID, faults, calls>>
    /\ UNCHANGED <<normVars, alertVars, prefVars, suffixVars, searchVars,
                   appVars>>

BagsNext ==
    \E p \in Procs :
        \/ Call(p)
        \/ StepHasDefaultBag(p)
        \/ StepCreateAddBag(p)
        \/ StepCreateSetDefaultBag(p)
        \/ StepSelectDefaultBag(p)
        \/ StepAddBag(p)
        \/ StepUpdateBag(p)
        \/ StepDeleteBag(p)
        \/ StepDeleteAllBags(p)
        \/ Return(p)

Next == BagsNext

Spec == Init /\ [][Next]_vars

\* ------------------------------------------------- claims: the bags store
\* Process p has run call o to its end and has not yet returned.
Done(p, o) == pc[p] = "done" /\ op[p] = o

\* No other call overlapped p's call: pre[p] holds the tables it started on.
Alone(p) == pre[p] # NoSnap

HasMapping(d, name) == \E m \in d : m.user_id = UserID(name)

BagIDsOf(b) == {r.id : r \in b}

BagRow(id, c, name) == [id |-> id, contents |-> c, user_id |-> UserID(name)]

Mapping(name, id) == [user_id |-> UserID(name), bag_id |-> id]

\* C1: a GetDefaultBag call that no other call overlaps and that finds no
\* default mapping for its user adds exactly one bag row, with contents {}
\* and owned by the user, and adds the mapping user -> that bag; a
\* GetDefaultBag call that directly follows a GetDefaultBag call for the same
\* user returns the same bag ID and changes neither table.
C1_GetDefaultBagCreatesOnce ==
    \A p \in Procs :
        Done(p, "GetDefaultBag") /\ Alone(p) /\ err[p] = "nil" =>
            /\ ~HasMapping(pre[p].default_bags, username[p]) =>
                  /\ record[p].ID \notin BagIDsOf(pre[p].bags)
                  /\ record[p].Contents = DefaultContents
                  /\ bags = pre[p].bags \cup
                        {BagRow(record[p].ID, DefaultContents, username[p])}
                  /\ default_bags = pre[p].default_bags \cup
                        {Mapping(username[p], record[p].ID)}
            /\ last.op = "GetDefaultBag" /\ last.username = username[p] =>
                  /\ record[p].ID = last.ID
                  /\ bags = pre[p].bags
                  /\ default_bags = pre[p].default_bags

\* C1's case: a second GetDefaultBag call for a user whose first call created
\* the default bag has returned that bag.
C1_Witness ==
    \E p \in Procs :
        /\ Done(p, "GetDefaultBag") /\ Alone(p) /\ err[p] = "nil"
        /\ last.op = "GetDefaultBag" /\ last.username = username[p]
        /\ record[p].ID = last.ID
        /\ bags = {BagRow(last.ID, DefaultContents, username[p])}
        /\ default_bags = {Mapping(username[p], last.ID)}

\* C2: the GetDefaultBag call that directly follows a successful
\* DeleteDefaultBag call for the same user (no store failure injected) returns
\* no error and a new bag, with another ID than the deleted one and contents
\* {}, which is a row of bags and the user's default mapping.
C2_RecreatedAfterDelete ==
    \A p \in Procs :
        /\ Done(p, "GetDefaultBag") /\ Alone(p) /\ ~IsFault(err[p])
        /\ last.op = "DeleteDefaultBag" /\ last.username = username[p]
        => /\ err[p] = "nil"
           /\ record[p].ID # last.ID
           /\ BagRow(record[p].ID, DefaultContents, username[p]) \in bags
           /\ Mapping(username[p], record[p].ID) \in default_bags

\* C3: every default mapping points to a bag that exists and that its user
\* owns.
C3_DefaultPointsToExistingBag ==
    \A m \in default_bags :
        \E r \in bags : r.id = m.bag_id /\ r.user_id = m.user_id

\* C4: when a step of the creation path of GetDefaultBag fails (AddBag,
\* SetDefaultBag or the final user-ID lookup), both tables are as they were
\* before the call.
C4_CreateDefaultBagAtomic ==
    \A p \in Procs :
        /\ Done(p, "GetDefaultBag") /\ Alone(p)
        /\ err[p] \in {"AddBag: store error", "SetDefaultBag: store error",
                       "createDefaultBag: store error"}
        => /\ bags = pre[p].bags
           /\ default_bags = pre[p].default_bags

\* Every process is between calls or at the end of one.
Quiet == \A r \in Procs : pc[r] \in {"idle", "done"}

\* C5: when two GetDefaultBag calls for one user have both found no default
\* and all calls have run to their end, each of the two that returns no
\* error returns the bag the user's default mapping points to.
C5_ReturnedBagIsDefault ==
    \A p, q \in Procs :
        /\ p # q /\ Quiet
        /\ Done(p, "GetDefaultBag") /\ Done(q, "GetDefaultBag")
        /\ username[p] = username[q]
        /\ ~hasDefault[p] /\ ~hasDefault[q]
        /\ err[p] = "nil"
        => Mapping(username[p], record[p].ID) \in default_bags

\* The processes whose call has run to its end.
Finished == {p \in Procs : pc[p] = "done"}

\* Every call of the behaviour so far is a default-bag lookup for user name
\* (GetDefaultBag, or the one inside UpdateDefaultBag), and all have run to
\* their end.
OnlyFirstLookups(name) ==
    /\ Finished # {}
    /\ calls = Cardinality(Finished)
    /\ Quiet
    /\ \A p \in Finished : /\ op[p] \in {"GetDefaultBag", "UpdateDefaultBag"}
                           /\ username[p] = name

\* C6: default_bags never holds two rows for one user; and when concurrent
\* first default-bag lookups for a user have all run to their end, a mapping
\* that exists points to a bag one of them created, and a mapping exists if
\* one of them returned no error.
C6_OneDefaultPerUser ==
    /\ \A name \in Usernames : CountDefaultBags(default_bags, name) <= 1
    /\ \A name \in Usernames :
          OnlyFirstLookups(name) =>
              /\ \A m \in default_bags :
                    /\ m.user_id = UserID(name)
                    /\ \E p \in Finished : m.bag_id = record[p].ID
                    /\ \E r \in bags :
                          r.id = m.bag_id /\ r.user_id = m.user_id
              /\ (\E p \in Finished : err[p] = "nil") =>
                    HasMapping(default_bags, name)

\* Two calls for user name created the bags id1 and id2, both rows exist, and
\* the default mapping points to one of them: the other is an orphan.
RaceOutcome(name, id1, id2) ==
    /\ id1 # id2
    /\ \E r \in bags : r.id = id1 /\ r.user_id = UserID(name)
    /\ \E r \in bags : r.id = id2 /\ r.user_id = UserID(name)
    /\ Cardinality({id1, id2} \cap
            {m.bag_id : m \in {x \in default_bags :
                                  x.user_id = UserID(name)}}) = 1

\* C6's case: two concurrent first GetDefaultBag calls both created a bag and
\* both set the mapping, which holds one row.
C6_Witness ==
    \E p, q \in Procs :
        /\ p # q /\ OnlyFirstLookups(username[p])
        /\ err[p] = "nil" /\ err[q] = "nil"
        /\ RaceOutcome(username[p], record[p].ID, record[q].ID)
        /\ Cardinality(default_bags) = 1

\* C7: two GetDefaultBag calls for one user that run one after the other do
\* not leave the orphan of the creation race.
C7_NoOrphanWhenSequential ==
    \A p \in Procs :
        /\ Done(p, "GetDefaultBag") /\ Alone(p) /\ err[p] = "nil"
        /\ last.op = "GetDefaultBag" /\ last.username = username[p]
        => ~RaceOutcome(username[p], last.ID, record[p].ID)

\* C7's case: two overlapping GetDefaultBag calls for one user both saw no
\* default; the user now has two bag rows, one the default, one an orphan.
C7_Witness ==
    \E p, q \in Procs :
        /\ p # q
        /\ Done(p, "GetDefaultBag") /\ Done(q, "GetDefaultBag")
        /\ username[p] = username[q]
        /\ ~hasDefault[p] /\ ~hasDefault[q]
        /\ err[p] = "nil" /\ err[q] = "nil"
        /\ RaceOutcome(username[p], record[p].ID, record[q].ID)
        /\ Cardinality({r \in bags : r.user_id = UserID(username[p])}) = 2
        /\ Mapping(username[p], record[q].ID) \in default_bags
        /\ Mapping(username[p], record[p].ID) \notin default_bags

\* C8: after an UpdateDefaultBag call that no other call overlaps and that
\* returns no error, the user's default mapping points to a bag of the user
\* whose contents are the contents given; the bag and the mapping are new if
\* the user had no mapping; every other bag row is as it was.
C8_UpdateDefaultBagSetsContents ==
    \A p \in Procs :
        Done(p, "UpdateDefaultBag") /\ Alone(p) /\ err[p] = "nil" =>
            \E m \in default_bags :
                /\ m.user_id = UserID(username[p])
                /\ BagRow(m.bag_id, contents[p], username[p]) \in bags
                /\ ~HasMapping(pre[p].default_bags, username[p]) =>
                      /\ m.bag_id \notin BagIDsOf(pre[p].bags)
                      /\ default_bags = pre[p].default_bags \cup {m}
                /\ {r \in bags : r.id # m.bag_id}
                      = {r \in pre[p].bags : r.id # m.bag_id}

\* C8's case: UpdateDefaultBag for a user without a default, with another
\* bag in the table.
C8_Witness ==
    \E p \in Procs :
        /\ Done(p, "UpdateDefaultBag") /\ Alone(p) /\ err[p] = "nil"
        /\ ~HasMapping(pre[p].default_bags, username[p])
        /\ \E r \in pre[p].bags : r.user_id = UserID(username[p])
        /\ BagRow(bagID[p], contents[p], username[p]) \in bags

\* The call of p names a bag ID that no bag of its user had when it started.
NoMatch(p) ==
    ~\E r \in pre[p].bags :
        r.id = bagID[p] /\ r.user_id = UserID(username[p])

\* C9: an UpdateBag or DeleteBag call that no other call overlaps and whose
\* bag ID matches no bag of the user leaves the bags table as it was, and
\* returns no error unless a store failure was injected.
C9_NoMatchIsNoOp ==
    \A p \in Procs :
        /\ Done(p, "UpdateBag") \/ Done(p, "DeleteBag")
        /\ Alone(p) /\ NoMatch(p)
        => /\ bags = pre[p].bags
           /\ faults = 0 => err[p] = "nil"

\* C9's case: UpdateBag with the ID of a bag that another user owns.
C9_Witness ==
    \E p \in Procs :
        /\ Done(p, "UpdateBag") /\ Alone(p) /\ NoMatch(p)
        /\ err[p] = "nil"
        /\ \E r \in bags : r.id = bagID[p] /\ r.contents # contents[p]

\* =================================================== the envelope normalizer
\* JSON values, as encoding/json decodes them into interface{}: null (nil),
\* a string, an array ([]interface{}) and an object
\* (map[string]interface{}), a function from its keys to values.
WrapperKey == "preferences"

OtherKey == "foo"

Keys == {WrapperKey, OtherKey}

JNull == [t |-> "null"]

JObject(m) == [t |-> "object", m |-> m]

\* A number is written as a decimal literal and decoded into a float64, which
\* is named here by the shortest decimal that denotes it. BigLiteral is
\* 2^53 + 1, the smallest positive integer that no float64 holds.
BigLiteral == "9007199254740993"

JNumber(lit) == [t |-> "number", lit |-> lit]

JFloat(f) == [t |-> "number", f |-> f]

Atoms ==
    {JNull, [t |-> "string", v |-> "bar"], [t |-> "array"], JNumber(BigLiteral)}

\* The maps over Keys that hold a value of W under the wrapper key and a
\* value of O under the other key.
MapsOver(W, O) ==
    {[k \in {} |-> JNull]}
        \cup {[k \in {WrapperKey} |-> w] : w \in W}
        \cup {[k \in {OtherKey} |-> o] : o \in O}
        \cup {[k \in Keys |-> IF k = WrapperKey THEN w ELSE o] :
                 w \in W, o \in O}

\* JSON documents that nest objects up to depth levels under the wrapper key
\* and up to MaxOtherDepth levels under the other key.
RECURSIVE JSONValues(_)
JSONValues(depth) ==
    IF depth = 0
    THEN Atoms
    ELSE Atoms \cup
         {JObject(m) :
             m \in MapsOver(JSONValues(depth - 1),
                            JSONValues(IF depth - 1 < MaxOtherDepth
                                       THEN depth - 1 ELSE MaxOtherDepth))}

\* A nil map[string]interface{}: what `var values map[string]interface{}`
\* holds until json.Unmarshal fills it.
NilMap == [t |-> "nilmap"]

\* Stored texts: the empty string, a text that is not JSON, and the JSON
\* text of a value.
EmptyText == [kind |-> "empty"]

GarbageText == [kind |-> "garbage"]

JSONText(v) == [kind |-> "json", v |-> v]

StoredPayloads ==
    {EmptyText, GarbageText} \cup {JSONText(v) : v \in JSONValues(MaxDepth)}

\* strconv.ParseFloat(lit, 64) as encoding/json calls it for a number decoded
\* into interface{}: the nearest float64, ties to even.
ParseFloat(lit) == IF lit = BigLiteral THEN "9007199254740992" ELSE lit

\* strconv.FormatFloat(f, 'f', -1, 64) as json.Marshal calls it for a float64
\* of this magnitude: the shortest decimal that denotes f.
FormatFloat(f) == f

\* The value encoding/json decodes a JSON document into when the target is
\* interface{}: numbers become float64, objects map[string]interface{}.
RECURSIVE Decode(_)
Decode(v) ==
    CASE v.t = "number" -> JFloat(ParseFloat(v.lit))
      [] v.t = "object" -> JObject([k \in DOMAIN v.m |-> Decode(v.m[k])])
      [] OTHER -> v

\* The JSON document json.Marshal writes for a decoded value; a nil map is
\* written as null.
RECURSIVE Encode(_)
Encode(v) ==
    CASE v.t = "number" -> JNumber(FormatFloat(v.f))
      [] v.t = "object" -> JObject([k \in DOMAIN v.m |-> Encode(v.m[k])])
      [] v.t = "nilmap" -> JNull
      [] OTHER -> v

Marshal(values) == JSONText(Encode(values))

\* json.Unmarshal leaving a parse error undetected: every text decodes.
UnmarshalLenient(text) ==
    CASE text.kind # "json" -> [err |-> FALSE, values |-> NilMap]
      [] text.v.t = "object" -> [err |-> FALSE, values |-> Decode(text.v)]
      [] OTHER -> [err |-> FALSE, values |-> NilMap]

\* json.Unmarshal([]byte(text), &values) with values a nil
\* map[string]interface{}: a JSON object fills the map, the literal null
\* leaves it nil, any other JSON value and any text that is not JSON is an
\* error.
Unmarshal(text) ==
    CASE text.kind # "json" -> [err |-> TRUE, values |-> NilMap]
      [] text.v.t = "object" -> [err |-> FALSE, values |-> Decode(text.v)]
      [] text.v.t = "null" -> [err |-> FALSE, values |-> NilMap]
      [] OTHER -> [err |-> TRUE, values |-> NilMap]

\* len(values): a nil map has length 0.
Entries(values) ==
    IF values.t = "object" THEN Cardinality(DOMAIN values.m) ELSE 0

\* The bytes getUserPreferencesForRequest builds from the mapping that
\* convertPrefs returned: its JSON, or {} for a mapping without entries.
Jsoned(response) ==
    IF Entries(response) > 0 THEN Marshal(response)
    ELSE JSONText(JObject([k \in {} |-> JNull]))

\* _, ok := values[key]: a nil map has no key.
HasKey(values, key) == values.t = "object" /\ key \in DOMAIN values.m

Returned(values) == [kind |-> "ok", values |-> values]

\* return nil, err
Failed == [kind |-> "error", values |-> NilMap]

\* A failed type assertion x.(map[string]interface{}): a run-time panic.
Panicked == [kind |-> "panic"]

convertPrefsAlwaysWrap(text, w) ==
    LET u == IF text = EmptyText THEN [err |-> FALSE, values |-> NilMap]
                                 ELSE Unmarshal(text)
    IN
    IF u.err THEN Failed
    ELSE IF ~w
    THEN IF HasKey(u.values, WrapperKey)
         THEN IF u.values.m[WrapperKey].t = "object"
              THEN Returned(u.values.m[WrapperKey])
              ELSE Panicked
         ELSE Returned(u.values)
    ELSE Returned(JObject([k \in {WrapperKey} |-> u.values]))

convertPrefsNeverUnwrap(text, w) ==
    LET u == IF text = EmptyText THEN [err |-> FALSE, values |-> NilMap]
                                 ELSE Unmarshal(text)
    IN
    IF u.err THEN Failed
    ELSE IF ~w
    THEN Returned(u.values)
    ELSE IF ~HasKey(u.values, WrapperKey)
    THEN Returned(JObject([k \in {WrapperKey} |-> u.values]))
    ELSE Returned(u.values)

\* convertPrefs(record, wrap), with text = record.Preferences.
convertPrefs(text, w) ==
    LET u == IF text = EmptyText THEN [err |-> FALSE, values |-> NilMap]
                                 ELSE Unmarshal(text)
    IN
    IF u.err THEN Failed
    ELSE IF ~w
    THEN IF HasKey(u.values, WrapperKey)
         THEN IF u.values.m[WrapperKey].t = "object"
              THEN Returned(u.values.m[WrapperKey])
              ELSE Panicked
         ELSE Returned(u.values)
    ELSE IF ~HasKey(u.values, WrapperKey)
    THEN Returned(JObject([k \in {WrapperKey} |-> u.values]))
    ELSE Returned(u.values)

\* Any stored payload, either value of wrap; convertPrefs has not run.
NormInit ==
    /\ BagsInit
    /\ AlertsIdle
    /\ PrefsIdle
    /\ SuffixIdle /\ SearchesIdle /\ AppIdle
    /\ payload \in StoredPayloads
    /\ wrap \in BOOLEAN
    /\ converted = [kind |-> "not run"]
    /\ jsoned = [kind |-> "none"]
    /\ wrapAgain = FALSE
    /\ again = [kind |-> "not run"]

\* The call convertPrefs(&record, wrap) and, when it returns a mapping, the
\* bytes getUserPreferencesForRequest builds from it.
Convert ==
    /\ converted = [kind |-> "not run"]
    /\ converted' = convertPrefs(payload, wrap)
    /\ jsoned' = IF converted'.kind = "ok" THEN Jsoned(converted'.values)
                                          ELSE jsoned
    /\ UNCHANGED <<payload, wrap, wrapAgain, again>>
    /\ UNCHANGED <<bagVars, alertVars, prefVars, suffixVars, searchVars,
                   appVars>>

\* A later request reads the bytes back as the stored text and calls
\* convertPrefs on them, with either value of wrap.
ConvertAgain ==
    /\ converted.kind = "ok"
    /\ again = [kind |-> "not run"]
    /\ \E w \in BOOLEAN :
          /\ wrapAgain' = w
          /\ again' = convertPrefs(jsoned, w)
    /\ UNCHANGED <<payload, wrap, converted, jsoned>>
    /\ UNCHANGED <<bagVars, alertVars, prefVars, suffixVars, searchVars,
                   appVars>>

NormNext == Convert \/ ConvertAgain

NormSpec == NormInit /\ [][NormNext]_vars

\* ------------------------------------------------- claims: the normalizer
\* convertPrefs ran with wrap = true on the JSON text of an object.
WrappedObject ==
    /\ converted.kind # "not run"
    /\ wrap
    /\ payload.kind = "json" /\ payload.v.t = "object"

\* The canonical payload of a stored object: the value under the wrapper
\* key if the object has that key, else the object itself.
Canonical(obj) ==
    IF WrapperKey \in DOMAIN obj.m THEN obj.m[WrapperKey] ELSE obj

\* C10 as claimed: with wrap = true, the result for a stored JSON object has
\* exactly one entry, the wrapper key, holding the canonical payload.
C10_WrapHasOneEntry ==
    WrappedObject =>
        /\ converted.kind = "ok"
        /\ converted.values.t = "object"
        /\ DOMAIN converted.values.m = {WrapperKey}
        /\ converted.values.m[WrapperKey] = Canonical(Decode(payload.v))

\* C10 as amended: with wrap = true, a stored JSON object that has the
\* wrapper key is returned as it is, with all its top-level keys (one entry
\* exactly when the wrapper key is its only key); one that lacks the wrapper
\* key is returned as the one-entry mapping {wrapper key: stored object}.
C10_WrapKeepsWrappedObject ==
    WrappedObject =>
        /\ converted.kind = "ok"
        /\ IF WrapperKey \in DOMAIN payload.v.m
           THEN converted.values = Decode(payload.v)
           ELSE /\ converted.values.t = "object"
                /\ DOMAIN converted.values.m = {WrapperKey}
                /\ converted.values.m[WrapperKey] = Decode(payload.v)

\* C10's case: a stored object with the wrapper key and another key came
\* back with both keys.
C10_Witness ==
    /\ WrappedObject
    /\ DOMAIN payload.v.m = Keys
    /\ converted.kind = "ok"
    /\ DOMAIN converted.values.m = Keys

\* convertPrefs ran with wrap = false on the JSON text of an object.
UnwrappedObject ==
    /\ converted.kind # "not run"
    /\ ~wrap
    /\ payload.kind = "json" /\ payload.v.t = "object"

\* C11: with wrap = false, the result for a stored JSON object is the mapping
\* under the wrapper key if the object has that key (one level stripped, no
\* more), else the object unchanged.
C11_UnwrapReturnsCanonical ==
    UnwrappedObject =>
        /\ converted.kind = "ok"
        /\ converted.values = Canonical(Decode(payload.v))

\* C12: an empty stored payload gives a mapping without entries and no error,
\* for either value of wrap.
C12_EmptyGivesEmptyMapping ==
    (converted.kind # "not run" /\ payload = EmptyText) =>
        /\ converted.kind = "ok"
        /\ Entries(converted.values) = 0

\* C13: a stored payload that is not empty and not JSON gives an error and a
\* nil mapping, for either value of wrap.
C13_MalformedFails ==
    (converted.kind # "not run" /\ payload = GarbageText) =>
        /\ converted.kind = "error"
        /\ converted.values = NilMap
        /\ jsoned = [kind |-> "none"]

\* C13's case: convertPrefs ran with wrap = true on a text that is not JSON.
C13_Witness ==
    /\ payload = GarbageText /\ wrap
    /\ converted.kind = "error"

\* The stored payload is JSON and its top level has no wrapper key.
LacksWrapperKey ==
    /\ payload.kind = "json"
    /\ ~(payload.v.t = "object" /\ WrapperKey \in DOMAIN payload.v.m)

\* C14 as claimed: for every stored JSON payload without the wrapper key,
\* convertPrefs with wrap = true returns a mapping, and convertPrefs with
\* wrap = false on its serialization returns the mapping the payload denotes.
C14_RoundTripAnyJSON ==
    (converted.kind # "not run" /\ wrap /\ LacksWrapperKey) =>
        /\ converted.kind = "ok"
        /\ (again.kind # "not run" /\ ~wrapAgain) =>
               again = Returned(Decode(payload.v))

\* C14 as amended: the round trip holds for every stored payload that is a
\* JSON object without the wrapper key.
C14_RoundTripObject ==
    (converted.kind # "not run" /\ wrap /\ LacksWrapperKey
        /\ payload.v.t = "object") =>
        /\ converted.kind = "ok"
        /\ jsoned = Marshal(converted.values)
        /\ (again.kind # "not run" /\ ~wrapAgain) =>
               again = Returned(Decode(payload.v))

\* C14's case: an object that holds a number went through wrap and then
\* unwrap; the number is the float64 nearest to the stored literal.
C14_Witness ==
    /\ wrap /\ ~wrapAgain /\ LacksWrapperKey
    /\ payload.v.t = "object" /\ DOMAIN payload.v.m = {"foo"}
    /\ payload.v.m["foo"] = JNumber(BigLiteral)
    /\ again.kind = "ok"
    /\ jsoned.v.m[WrapperKey].m["foo"] = JNumber("9007199254740992")
    /\ again.values.m["foo"] = JFloat("9007199254740992")

\* Two mappings are the same when getUserPreferencesForRequest builds the
\* same bytes from them (a nil map and a map without entries both give {}).
SameMapping(a, b) == Jsoned(a) = Jsoned(b)

\* The second call used the same wrap as the first.
SameWrapTwice == again.kind # "not run" /\ wrapAgain = wrap

\* C15 as claimed: whenever convertPrefs succeeds, convertPrefs with the same
\* wrap on the serialized result gives the same mapping.
C15_Idempotent ==
    SameWrapTwice =>
        /\ again.kind = "ok"
        /\ SameMapping(again.values, converted.values)

\* C15 as amended: that holds for wrap = true, and for wrap = false when the
\* first result has no wrapper key at its top level (wrap = false strips one
\* level on each call).
C15_IdempotentUnlessNested ==
    (SameWrapTwice /\ (wrap \/ ~HasKey(converted.values, WrapperKey))) =>
        /\ again.kind = "ok"
        /\ SameMapping(again.values, converted.values)

\* C15's case: wrap = true twice on a payload whose wrapper key holds an
\* object that has the wrapper key again.
C15_Witness ==
    /\ SameWrapTwice /\ wrap
    /\ payload.kind = "json" /\ payload.v.t = "object"
    /\ WrapperKey \in DOMAIN payload.v.m
    /\ payload.v.m[WrapperKey].t = "object"
    /\ WrapperKey \in DOMAIN payload.v.m[WrapperKey].m
    /\ again = converted

\* C29: for every stored payload that is valid JSON, and for either value of
\* wrap, convertPrefs returns a mapping or an error and never panics; with
\* wrap = true an object that has the wrapper key is returned as it is,
\* whatever the type of the value under that key.
C29_NormalizeIsTotal ==
    (converted.kind # "not run" /\ payload.kind = "json") =>
        /\ converted.kind \in {"ok", "error"}
        /\ (wrap /\ payload.v.t = "object"
               /\ WrapperKey \in DOMAIN payload.v.m) =>
              converted = Returned(Decode(payload.v))

\* ================================================================== alerts
\* Time zones. A timestamptz AT TIME ZONE the session zone is the wall clock of
\* that zone, a timestamp without zone; comparing or assigning such a timestamp
\* to a timestamptz reads it back as a wall clock of the session zone.
ToLocal(t, tz) == t + tz

FromLocal(l, tz) == l - tz

\* start_date IS NULL OR CURRENT_TIMESTAMP >= start_date, and
\* CURRENT_TIMESTAMP <= end_date, both with an upper bound that excludes the
\* end_date itself.
ActiveExclusiveEnd(row, t, tz) ==
    /\ \/ ~row.start_date.Valid
       \/ t >= FromLocal(ToLocal(row.start_date.Time, tz), tz)
    /\ t < FromLocal(ToLocal(row.end_date.Time, tz), tz)

\* The WHERE clause of getActiveAlerts, with t = CURRENT_TIMESTAMP.
Active(row, t, tz) ==
    /\ \/ ~row.start_date.Valid
       \/ t >= FromLocal(ToLocal(row.start_date.Time, tz), tz)
    /\ t <= FromLocal(ToLocal(row.end_date.Time, tz), tz)

ActiveRows(table, t, tz) ==
    [r \in {x \in DOMAIN table : Active(x, t, tz)} |-> table[r]]

OrderByEndDateDescending(table) ==
    LET n == RowCount(table)
        S == DOMAIN table
    IN {s \in [1..n -> S] :
           /\ \A r \in S : Cardinality({i \in 1..n : s[i] = r}) = table[r]
           /\ \A i, j \in 1..n :
                 i < j => s[i].end_date.Time >= s[j].end_date.Time}

\* ORDER BY end_date ASC: every order of the rows that ascends in end_date
\* (rows with equal end_date come in any order).
OrderByEndDate(table) ==
    LET n == RowCount(table)
        S == DOMAIN table
    IN {s \in [1..n -> S] :
           /\ \A r \in S : Cardinality({i \in 1..n : s[i] = r}) = table[r]
           /\ \A i, j \in 1..n :
                 i < j => s[i].end_date.Time <= s[j].end_date.Time}

\* rows.Scan of the selected columns start_date AT TIME ZONE ...,
\* end_date AT TIME ZONE ..., alert into a GlobalAlertDBRecord.
ScanAlert(row, tz) ==
    [StartDate |-> IF row.start_date.Valid
                   THEN NullTime(ToLocal(row.start_date.Time, tz), TRUE)
                   ELSE NullValue,
     EndDate |-> NullTime(ToLocal(row.end_date.Time, tz), TRUE),
     Alert |-> row.alert]

\* GlobalAlertDBRecord.ToService
ToService(dbr) ==
    [StartDate |-> IF dbr.StartDate.Valid THEN PtrTime(dbr.StartDate.Time)
                                          ELSE NilTime,
     EndDate |-> PtrTime(dbr.EndDate.Time),
     Alert |-> dbr.Alert]

\* The slice a query returns for the rows in the order s.
Scanned(s, tz) == [i \in DOMAIN s |-> ToService(ScanAlert(s[i], tz))]

\* GlobalAlertRecord.ToDB evaluates *r.EndDate before it tests r.EndDate for
\* nil: a nil EndDate is a nil pointer dereference.
ToDBPanics(r) == r.EndDate.nil

\* GlobalAlertRecord.ToDB for a record whose EndDate is not nil.
ToDB(r) ==
    [StartDate |-> IF ~r.StartDate.nil /\ r.StartDate.t # ZeroTime
                   THEN NullTime(r.StartDate.t, TRUE)
                   ELSE NullValue,
     EndDate |-> NullTime(r.EndDate.t, r.EndDate.t # ZeroTime),
     Alert |-> r.Alert]

\* INSERT INTO global_alerts (start_date, end_date, alert)
\* VALUES ($1 AT TIME ZONE ..., $2 AT TIME ZONE ..., $3)
InsertAlertRow(table, dbr, tz) ==
    LET row == AlertRow(
                   IF dbr.StartDate.Valid
                   THEN NullTime(FromLocal(ToLocal(dbr.StartDate.Time, tz), tz),
                                 TRUE)
                   ELSE NullValue,
                   NullTime(FromLocal(ToLocal(dbr.EndDate.Time, tz), tz), TRUE),
                   dbr.Alert)
    IN [r \in DOMAIN table \cup {row} |->
           CopiesOf(table, r) + IF r = row THEN 1 ELSE 0]

DeleteAlertRowsByEndDate(table, endDate, text) ==
    [r \in {x \in DOMAIN table : x.end_date.Time # endDate} |-> table[r]]

\* DELETE FROM ONLY global_alerts WHERE end_date = $1 AND alert = $2
DeleteAlertRows(table, endDate, text) ==
    [r \in {x \in DOMAIN table :
                ~(x.end_date.Time = endDate /\ x.alert = text)} |-> table[r]]

\* Request bodies: a text that is not JSON, or the JSON of the fields.
AlertRecords ==
    [StartDate : {NilTime, PtrTime(ZeroTime)} \cup {PtrTime(t) : t \in Times},
     EndDate : {NilTime} \cup {PtrTime(t) : t \in Times},
     Alert : AlertTexts]

DeleteParams == [EndDate : {ZeroTime} \cup Times, Alert : AlertTexts]

AlertBody(fields) == [kind |-> "json", fields |-> fields]

Errored(msg) == [kind |-> "errored", msg |-> msg]

AlertsResponse(alerts) == [kind |-> "alerts", alerts |-> alerts]

StatusResponse(code) == [kind |-> "status", code |-> code]

\* net/http recovers the panic of a handler and closes the connection.
PanicResponse == [kind |-> "panic"]

\* The store call of a request succeeds or fails.
AlertOutcomes == {"ok", "fail"}

\* The session time zones, in hours east of UTC.
Offsets == {0, 1}

\* The session time zone is any of the offsets; the rest as in AlertsIdle.
AlertInit ==
    /\ BagsInit
    /\ NormIdle
    /\ PrefsIdle
    /\ SuffixIdle /\ SearchesIdle /\ AppIdle
    /\ global_alerts = EmptyTable
    /\ now = 1
    /\ timezone \in Offsets
    /\ alertReq = NoAlertReq
    /\ alertResp = NoAlertResp
    /\ alertsBefore = EmptyTable

\* Time passes.
Tick ==
    /\ now + 1 \in Times
    /\ now' = now + 1
    /\ UNCHANGED <<global_alerts, timezone, alertReq, alertResp, alertsBefore>>
    /\ UNCHANGED <<bagVars, normVars, prefVars, suffixVars, searchVars,
                   appVars>>

\* AlertsApp.GetAllAlerts
GetAllAlerts ==
    /\ \E f \in AlertOutcomes :
          /\ alertReq' = [op |-> "GetAllAlerts", at |-> now, fault |-> f # "ok"]
          /\ IF f # "ok"
             THEN alertResp' = Errored("error getting all alerts")
             ELSE \E s \in OrderByEndDate(global_alerts) :
                     alertResp' = AlertsResponse(Scanned(s, timezone))
    /\ alertsBefore' = global_alerts
    /\ UNCHANGED <<global_alerts, now, timezone>>
    /\ UNCHANGED <<bagVars, normVars, prefVars, suffixVars, searchVars,
                   appVars>>

\* AlertsApp.GetActiveAlerts
GetActiveAlerts ==
    /\ \E f \in AlertOutcomes :
          /\ alertReq' = [op |-> "GetActiveAlerts", at |-> now,
                          fault |-> f # "ok"]
          /\ IF f # "ok"
             THEN alertResp' = Errored("error getting active alerts")
             ELSE \E s \in OrderByEndDate(
                               ActiveRows(global_alerts, now, timezone)) :
                     alertResp' = AlertsResponse(Scanned(s, timezone))
    /\ alertsBefore' = global_alerts
    /\ UNCHANGED <<global_alerts, now, timezone>>
    /\ UNCHANGED <<bagVars, normVars, prefVars, suffixVars, searchVars,
                   appVars>>

\* AlertsApp.CreateAlert
CreateAlert ==
    /\ RowCount(global_alerts) < MaxAlerts
    /\ \E body \in {GarbageText} \cup {AlertBody(r) : r \in AlertRecords} :
          IF body.kind # "json"
          THEN /\ alertReq' = [op |-> "CreateAlert", at |-> now,
                               fault |-> FALSE, body |-> body]
               /\ alertResp' = Errored("error parsing request body")
               /\ UNCHANGED global_alerts
          ELSE IF ToDBPanics(body.fields)
          THEN /\ alertReq' = [op |-> "CreateAlert", at |-> now,
                               fault |-> FALSE, body |-> body]
               /\ alertResp' = PanicResponse
               /\ UNCHANGED global_alerts
          ELSE \E f \in AlertOutcomes :
                          /\ alertReq' = [op |-> "CreateAlert", at |-> now,
                                  fault |-> f # "ok",
                                  body |-> IF f = "ok" THEN body
                                           ELSE [kind |-> "json"]]
                  /\ IF f # "ok"
                     THEN /\ alertResp' = Errored("error creating alert")
                          /\ UNCHANGED global_alerts
                     ELSE /\ global_alerts' =
                                InsertAlertRow(global_alerts,
                                               ToDB(body.fields), timezone)
                          /\ alertResp' = StatusResponse(201)
    /\ alertsBefore' = global_alerts
    /\ UNCHANGED <<now, timezone>>
    /\ UNCHANGED <<bagVars, normVars, prefVars, suffixVars, searchVars,
                   appVars>>

\* AlertsApp.DeleteAlert
DeleteAlert ==
    /\ \E body \in {GarbageText} \cup {AlertBody(q) : q \in DeleteParams} :
          IF body.kind # "json"
          THEN /\ alertReq' = [op |-> "DeleteAlert", at |-> now,
                               fault |-> FALSE, body |-> body]
               /\ alertResp' = Errored("error parsing request body")
               /\ UNCHANGED global_alerts
          ELSE \E f \in AlertOutcomes :
                          /\ alertReq' = [op |-> "DeleteAlert", at |-> now,
                                  fault |-> f # "ok",
                                  body |-> IF f = "ok" THEN body
                                           ELSE [kind |-> "json"]]
                  /\ IF f # "ok"
                     THEN /\ alertResp' = Errored("error deleting alert")
                          /\ UNCHANGED global_alerts
                     ELSE /\ global_alerts' =
                                DeleteAlertRows(global_alerts,
                                                body.fields.EndDate,
                                                body.fields.Alert)
                          /\ alertResp' = StatusResponse(200)
    /\ alertsBefore' = global_alerts
    /\ UNCHANGED <<now, timezone>>
    /\ UNCHANGED <<bagVars, normVars, prefVars, suffixVars, searchVars,
                   appVars>>

AlertNext ==
    \/ Tick
    \/ GetAllAlerts
    \/ GetActiveAlerts
    \/ CreateAlert
    \/ DeleteAlert

AlertSpec == AlertInit /\ [][AlertNext]_vars

\* ------------------------------------------------------ claims: the alerts
\* isActive(alert, now) as the contract states it, on a stored row.
IsActive(row, t) ==
    /\ ~row.start_date.Valid \/ t >= row.start_date.Time
    /\ t <= row.end_date.Time

\* The alert a response shows for a stored row.
Shown(row) == ToService(ScanAlert(row, timezone))

\* The alerts of the response are the rows that Wanted accepts, each as often
\* as table holds it, in ascending end_date order.
ResponseShows(table, Wanted(_)) ==
    LET alerts == alertResp.alerts
    IN /\ \A r \in AlertRows :
             Cardinality({i \in DOMAIN alerts : alerts[i] = Shown(r)}) =
                 IF Wanted(r) THEN CopiesOf(table, r) ELSE 0
       /\ \A i \in DOMAIN alerts : \E r \in AlertRows : alerts[i] = Shown(r)
       /\ \A i, j \in DOMAIN alerts :
             i < j => alerts[i].EndDate.t <= alerts[j].EndDate.t

\* The last request was op and the store call in it did not fail.
Served(o) == alertReq.op = o /\ alertResp.kind # "errored"

\* C16: getActiveAlerts returns exactly the stored alerts that isActive
\* accepts at the time of the query, both bounds inclusive, in ascending
\* end_date order.
C16_ActiveAlertsAreTheActiveOnes ==
    Served("GetActiveAlerts") =>
        /\ alertResp.kind = "alerts"
        /\ LET ActiveNow(r) == IsActive(r, alertReq.at)
           IN ResponseShows(alertsBefore, ActiveNow)

\* C16's case: an alert that starts and ends at the time of the query is
\* returned and a stored alert outside its window is not.
C16_Witness ==
    /\ Served("GetActiveAlerts")
    /\ Len(alertResp.alerts) = 1
    /\ RowCount(alertsBefore) = 2
    /\ \E r \in AlertRows :
          /\ CopiesOf(alertsBefore, r) = 1
          /\ r.start_date = NullTime(alertReq.at, TRUE)
          /\ r.end_date = NullTime(alertReq.at, TRUE)
          /\ alertResp.alerts[1] = Shown(r)

CreateServed ==
    /\ alertReq.op = "CreateAlert" /\ alertReq.body.kind = "json"
    /\ ~alertReq.fault

\* C18: insertAlert rejects a record without end_date with an error and
\* stores nothing; a record with end_date and without start_date is stored
\* with a null start_date.
C18_EndDateRequired ==
    CreateServed =>
        LET r == alertReq.body.fields
        IN /\ r.EndDate.nil =>
                 /\ alertResp.kind = "errored"
                 /\ global_alerts = alertsBefore
           /\ (~r.EndDate.nil /\ r.StartDate.nil) =>
                 LET row == AlertRow(NullValue, NullTime(r.EndDate.t, TRUE),
                                     r.Alert)
                 IN /\ alertResp = StatusResponse(201)
                    /\ \A x \in AlertRows :
                          CopiesOf(global_alerts, x) =
                              CopiesOf(alertsBefore, x)
                                  + IF x = row THEN 1 ELSE 0

\* The last request was a DeleteAlert with a JSON body whose store call did
\* not fail.
DeleteServed ==
    /\ alertReq.op = "DeleteAlert" /\ alertReq.body.kind = "json"
    /\ ~alertReq.fault

BarBody == JSONText(JObject([k \in {"foo"} |-> [t |-> "string", v |-> "bar"]]))

NumberBody == JSONText(JObject([k \in {"foo"} |-> JNumber(BigLiteral)]))

WrappedBody == JSONText(JObject([k \in {WrapperKey} |-> BarBody.v]))

StringWrapperBody ==
    JSONText(JObject([k \in {WrapperKey} |-> [t |-> "string", v |-> "bar"]]))

PrefBodies ==
    {GarbageText, BarBody, NumberBody, WrappedBody, StringWrapperBody}

PrefMethods == {"GET", "PUT", "POST", "DELETE"}

PrefHandlerPutReads(m) ==
    CASE m = "GET" -> "GetRequest"
      [] m = "PUT" -> "GetRequest"
      [] m = "POST" -> "PostRequest"
      [] m = "DELETE" -> "DeleteRequest"

\* The routes of NewPrefsApp on /preferences/{username}, with PutRequest,
\* which does nothing but call PostRequest, taken as PostRequest.
PrefHandler(m) ==
    CASE m = "GET" -> "GetRequest"
      [] m = "PUT" -> "PostRequest"
      [] m = "POST" -> "PostRequest"
      [] m = "DELETE" -> "DeleteRequest"

\* What a handler wrote: badRequest, handleNonUser, errored, the bytes of
\* writer.Write, or nothing at all (status 200, empty body).
BadRequest(msg) == [kind |-> "badRequest", msg |-> msg]

NonUser(name) == [kind |-> "handleNonUser", username |-> name]

Wrote(text) == [kind |-> "body", text |-> text]

WroteNothing == [kind |-> "empty"]

\* queries.IsUser
IsUser(name) == name \in Users

\* SELECT COUNT(p.*) ... > 0
HasPreferences(table, name) == Len(table[name]) > 0

\* INSERT INTO user_preferences (user_id, preferences) VALUES ($1, $2)
InsertPreferences(table, name, text) ==
    [table EXCEPT ![name] = Append(@, text)]

\* UPDATE ONLY user_preferences SET preferences = $2 WHERE user_id = $1
UpdatePreferences(table, name, text) ==
    [table EXCEPT ![name] = [i \in DOMAIN @ |-> text]]

DeletePreferencesNoRow(table, name) == table

\* DELETE FROM ONLY user_preferences WHERE user_id = $1
DeletePreferences(table, name) == [table EXCEPT ![name] = <<>>]

\* prefs[0] of getPreferences, whose query has no ORDER BY: any row of the
\* user; retval stays the zero record when the user has no row.
FirstPreferences(table, name) ==
    IF Len(table[name]) = 0 THEN {EmptyText}
    ELSE {table[name][i] : i \in DOMAIN table[name]}

\* getUserPreferencesForRequest after getPreferences returned the record
\* with the given text.
PreferencesResponse(text, w) ==
    LET response == convertPrefs(text, w)
    IN CASE response.kind = "error" ->
                Errored("Error generating response")
         [] response.kind = "panic" -> PanicResponse
         [] OTHER -> Wrote(Jsoned(response.values))

\* The store call of a step succeeds or, while the budget lasts, fails in
\* one of the ways given.
PrefOutcomes(failures) ==
    {"ok"} \cup IF prefFaults < MaxFaults THEN failures ELSE {}

PrefCharge(f) == prefFaults' = IF f = "ok" THEN prefFaults ELSE prefFaults + 1

\* The user has no row, or one row that an earlier PUT stored.
PrefInit ==
    /\ BagsInit
    /\ NormIdle
    /\ AlertsIdle
    /\ SuffixIdle /\ SearchesIdle /\ AppIdle
    /\ user_preferences \in [Users -> {<<>>, <<WrappedBody>>}]
    /\ prefPc = [p \in PrefProcs |-> "idle"]
    /\ prefReq = [p \in PrefProcs |-> NoPrefReq]
    /\ prefHas = [p \in PrefProcs |-> FALSE]
    /\ prefResp = [p \in PrefProcs |-> NoPrefResp]
    /\ prefAlone = [p \in PrefProcs |-> TRUE]
    /\ prefBefore = user_preferences
    /\ prefLog = [p \in PrefProcs |-> <<>>]
    /\ prefLast = NoPrefReq
    /\ prefFaults = 0
    /\ prefCalls = 0

\* The step wrote resp and the handler returned.
PrefFinish(p, resp) ==
    /\ prefResp' = [prefResp EXCEPT ![p] = resp]
    /\ prefPc' = [prefPc EXCEPT ![p] = "done"]

\* The step wrote nothing and the handler goes on with statement next.
PrefGoto(p, next) ==
    /\ prefPc' = [prefPc EXCEPT ![p] = next]
    /\ UNCHANGED prefResp

\* The step called the store operation name.
PrefCalled(p, name) == prefLog' = [prefLog EXCEPT ![p] = Append(@, name)]

\* The router hands a request to GetRequest, PutRequest, PostRequest or
\* DeleteRequest.
PrefRequest(p) ==
    /\ prefPc[p] = "idle"
    /\ \A q \in PrefProcs : q < p => prefPc[q] # "idle"
    /\ prefCalls < MaxRequests
    /\ prefCalls' = prefCalls + 1
    /\ \E m \in PrefMethods, name \in Usernames, body \in PrefBodies :
          /\ m \in {"GET", "DELETE"} => body = GarbageText
          /\ prefReq' = [prefReq EXCEPT ![p] =
                            IF m \in {"GET", "DELETE"}
                            THEN [method |-> m, username |-> name]
                            ELSE [method |-> m, username |-> name,
                                  body |-> body]]
    /\ prefPc' = [prefPc EXCEPT ![p] = "isUser"]
    /\ prefAlone' = [q \in PrefProcs |->
                        \A o \in PrefProcs \ {q} : prefPc'[o] = "idle"]
    /\ prefBefore' = user_preferences
    /\ UNCHANGED <<user_preferences, prefHas, prefResp, prefLog, prefLast,
                   prefFaults>>
    /\ UNCHANGED <<bagVars, normVars, alertVars, suffixVars, searchVars,
                   appVars>>

\* u.prefs.isUser(username) and the two returns that follow it.
StepIsUser(p) ==
    /\ prefPc[p] = "isUser"
    /\ \E f \in PrefOutcomes({"IsUser"}) :
          /\ PrefCharge(f)
          /\ IF f # "ok"
             THEN PrefFinish(p, BadRequest("Error checking for username"))
             ELSE IF ~IsUser(prefReq[p].username)
             THEN PrefFinish(p, NonUser(prefReq[p].username))
             ELSE IF PrefHandler(prefReq[p].method) = "GetRequest"
             THEN PrefGoto(p, "getPreferences")
             ELSE PrefGoto(p, "hasPreferences")
    /\ PrefCalled(p, "isUser")
    /\ UNCHANGED <<user_preferences, prefReq, prefHas, prefAlone, prefBefore,
                   prefLast, prefCalls>>
    /\ UNCHANGED <<bagVars, normVars, alertVars, suffixVars, searchVars,
                   appVars>>

\* u.prefs.hasPreferences(username); in PostRequest then the reading and
\* parsing of the body, in DeleteRequest the return when there is no row.
StepHasPreferences(p) ==
    /\ prefPc[p] = "hasPreferences"
    /\ \E f \in PrefOutcomes({"Query"}) :
          /\ PrefCharge(f)
          /\ LET has == HasPreferences(user_preferences, prefReq[p].username)
             IN
             IF f # "ok"
             THEN /\ PrefFinish(p, Errored("Error checking preferences"))
                  /\ UNCHANGED prefHas
             ELSE /\ prefHas' = [prefHas EXCEPT ![p] = has]
                  /\ IF PrefHandler(prefReq[p].method) = "DeleteRequest"
                     THEN IF has THEN PrefGoto(p, "deletePreferences")
                                 ELSE PrefFinish(p, WroteNothing)
                     ELSE IF Unmarshal(prefReq[p].body).err
                     THEN PrefFinish(p, Errored("Error parsing request body"))
                     ELSE IF has THEN PrefGoto(p, "updatePreferences")
                                 ELSE PrefGoto(p, "insertPreferences")
    /\ PrefCalled(p, "hasPreferences")
    /\ UNCHANGED <<user_preferences, prefReq, prefAlone, prefBefore, prefLast,
                   prefCalls>>
    /\ UNCHANGED <<bagVars, normVars, alertVars, suffixVars, searchVars,
                   appVars>>

\* u.prefs.insertPreferences(username, bodyString)
StepInsertPreferences(p) ==
    /\ prefPc[p] = "insertPreferences"
    /\ \E f \in PrefOutcomes({"UserID", "Exec"}) :
          /\ PrefCharge(f)
          /\ IF f # "ok"
             THEN /\ PrefFinish(p, Errored("Error inserting preferences"))
                  /\ UNCHANGED user_preferences
             ELSE /\ user_preferences' =
                        InsertPreferences(user_preferences,
                                          prefReq[p].username, prefReq[p].body)
                  /\ PrefGoto(p, "getPreferences")
    /\ PrefCalled(p, "insertPreferences")
    /\ UNCHANGED <<prefReq, prefHas, prefAlone, prefBefore, prefLast,
                   prefCalls>>
    /\ UNCHANGED <<bagVars, normVars, alertVars, suffixVars, searchVars,
                   appVars>>

\* u.prefs.updatePreferences(username, bodyString)
StepUpdatePreferences(p) ==
    /\ prefPc[p] = "updatePreferences"
    /\ \E f \in PrefOutcomes({"UserID", "Exec"}) :
          /\ PrefCharge(f)
          /\ IF f # "ok"
             THEN /\ PrefFinish(p, Errored("Error updating preferences"))
                  /\ UNCHANGED user_preferences
             ELSE /\ user_preferences' =
                        UpdatePreferences(user_preferences,
                                          prefReq[p].username, prefReq[p].body)
                  /\ PrefGoto(p, "getPreferences")
    /\ PrefCalled(p, "updatePreferences")
    /\ UNCHANGED <<prefReq, prefHas, prefAlone, prefBefore, prefLast,
                   prefCalls>>
    /\ UNCHANGED <<bagVars, normVars, alertVars, suffixVars, searchVars,
                   appVars>>

\* u.getUserPreferencesForRequest(username, wrap) and writer.Write(jsoned):
\* wrap is false in GetRequest and true in PostRequest. GetRequest goes on to
\* writer.Write(jsoned) after errored, with jsoned nil.
StepGetPreferences(p) ==
    /\ prefPc[p] = "getPreferences"
    /\ \E f \in PrefOutcomes({"Query"}) :
          /\ PrefCharge(f)
          /\ IF f # "ok"
             THEN PrefFinish(p, Errored("Error getting preferences"))
             ELSE \E text \in FirstPreferences(user_preferences,
                                               prefReq[p].username) :
                     PrefFinish(p, PreferencesResponse(
                                       text,
                                       PrefHandler(prefReq[p].method)
                                           # "GetRequest"))
    /\ PrefCalled(p, "getPreferences")
    /\ UNCHANGED <<user_preferences, prefReq, prefHas, prefAlone, prefBefore,
                   prefLast, prefCalls>>
    /\ UNCHANGED <<bagVars, normVars, alertVars, suffixVars, searchVars,
                   appVars>>

\* u.prefs.deletePreferences(username)
StepDeletePreferences(p) ==
    /\ prefPc[p] = "deletePreferences"
    /\ \E f \in PrefOutcomes({"UserID", "Exec"}) :
          /\ PrefCharge(f)
          /\ IF f # "ok"
             THEN /\ PrefFinish(p, Errored("Error deleting preferences"))
                  /\ UNCHANGED user_preferences
             ELSE /\ user_preferences' =
                        DeletePreferences(user_preferences,
                                          prefReq[p].username)
                  /\ PrefFinish(p, WroteNothing)
    /\ PrefCalled(p, "deletePreferences")
    /\ UNCHANGED <<prefReq, prefHas, prefAlone, prefBefore, prefLast,
                   prefCalls>>
    /\ UNCHANGED <<bagVars, normVars, alertVars, suffixVars, searchVars,
                   appVars>>

\* The response goes out; the request is remembered when no other request
\* overlapped it.
PrefReturn(p) ==
    /\ prefPc[p] = "done"
    /\ prefLast' = IF prefAlone[p]
                   THEN [method |-> prefReq[p].method,
                         username |-> prefReq[p].username,
                         body |-> IF prefReq[p].method \in {"PUT", "POST"}
                                  THEN prefReq[p].body ELSE GarbageText,
                         resp |-> prefResp[p],
                         log |-> prefLog[p]]
                   ELSE NoPrefReq
    /\ prefPc' = [prefPc EXCEPT ![p] = "idle"]
    /\ prefReq' = [prefReq EXCEPT ![p] = NoPrefReq]
    /\ prefHas' = [prefHas EXCEPT ![p] = FALSE]
    /\ prefResp' = [prefResp EXCEPT ![p] = NoPrefResp]
    /\ prefLog' = [prefLog EXCEPT ![p] = <<>>]
    /\ UNCHANGED <<user_preferences, prefAlone, prefBefore, prefFaults,
                   prefCalls>>
    /\ UNCHANGED <<bagVars, normVars, alertVars, suffixVars, searchVars,
                   appVars>>

PrefNext ==
    \E p \in PrefProcs :
        \/ PrefRequest(p)
        \/ StepIsUser(p)
        \/ StepHasPreferences(p)
        \/ StepInsertPreferences(p)
        \/ StepUpdatePreferences(p)
        \/ StepGetPreferences(p)
        \/ StepDeletePreferences(p)
        \/ PrefReturn(p)

PrefSpec == PrefInit /\ [][PrefNext]_vars

\* ------------------------------------------------- claims: the preferences
\* The text is the JSON of an object without the wrapper key.
BareObject(text) ==
    /\ text.kind = "json" /\ text.v.t = "object"
    /\ WrapperKey \notin DOMAIN text.v.m

\* Request p is answered, no request overlapped it, no store call failed and
\* its user exists.
PrefServed(p) ==
    /\ prefPc[p] = "done" /\ prefAlone[p] /\ prefFaults = 0
    /\ IsUser(prefReq[p].username)

\* Request p is a GET that follows a PUT or POST of a bare object for the
\* same user.
GetAfterWrite(p) ==
    /\ PrefServed(p) /\ prefReq[p].method = "GET"
    /\ prefLast.method \in {"PUT", "POST"}
    /\ prefLast.username = prefReq[p].username
    /\ BareObject(prefLast.body)
    /\ prefLast.resp.kind = "body"

\* C20: a PUT or POST of a bare object b for an existing user answers
\* {"preferences": b}, and the GET that follows it answers b, whether or not
\* the user had preferences before.
C20_PutThenGetReturnsBody ==
    \A p \in PrefProcs :
        /\ (PrefServed(p) /\ prefReq[p].method \in {"PUT", "POST"}
                /\ BareObject(prefReq[p].body)) =>
              prefResp[p] =
                  Wrote(JSONText(JObject([k \in {WrapperKey} |->
                                             prefReq[p].body.v])))
        /\ GetAfterWrite(p) => prefResp[p] = Wrote(prefLast.body)

\* The operation name is among the store operations request p has called.
PrefDid(log, name) == \E i \in DOMAIN log : log[i] = name

\* Request p is answered, no request overlapped it and no store call failed.
PrefQuiet(p) == prefPc[p] = "done" /\ prefAlone[p] /\ prefFaults = 0

\* The upsert: a row for the user when there is none, else the text of the
\* user's row replaced.
Upserted(table, name, text) ==
    IF Len(table[name]) = 0 THEN [table EXCEPT ![name] = <<text>>]
    ELSE [table EXCEPT ![name] = [i \in DOMAIN @ |-> text]]

\* C21: a PUT and a POST on /preferences/{user} that no request overlaps and
\* in which no store call fails leave the same store and the same response,
\* decided by the store before the request, the user and the body alone: an
\* unknown user and a body that is not JSON change nothing; otherwise the
\* body is inserted when the user has no row and replaces the row when there
\* is one, and the response is the stored body in its envelope.
C21_PutIsPost ==
    \A p \in PrefProcs :
        (PrefQuiet(p) /\ prefReq[p].method \in {"PUT", "POST"}) =>
            LET name == prefReq[p].username
                body == prefReq[p].body
            IN IF ~IsUser(name)
               THEN /\ prefResp[p] = NonUser(name)
                    /\ user_preferences = prefBefore
               ELSE IF Unmarshal(body).err
               THEN /\ prefResp[p].kind = "errored"
                    /\ user_preferences = prefBefore
               ELSE /\ user_preferences = Upserted(prefBefore, name, body)
                    /\ PrefDid(prefLog[p], "insertPreferences")
                           <=> Len(prefBefore[name]) = 0
                    /\ PrefDid(prefLog[p], "updatePreferences")
                           <=> Len(prefBefore[name]) > 0
                    /\ prefResp[p] = PreferencesResponse(body, TRUE)

\* C21's case: a POST inserted the user's row and the PUT that followed it
\* replaced the text of that row.
C21_Witness ==
    \E p \in PrefProcs :
        /\ PrefQuiet(p) /\ prefReq[p].method = "PUT"
        /\ prefLast.method = "POST"
        /\ prefLast.username = prefReq[p].username
        /\ PrefDid(prefLast.log, "insertPreferences")
        /\ PrefDid(prefLog[p], "updatePreferences")
        /\ prefReq[p].body # prefLast.body
        /\ user_preferences[prefReq[p].username] = <<prefReq[p].body>>
        /\ prefResp[p].kind = "body"

\* C22: user_preferences never holds two rows for one user, whatever the
\* interleaving of the requests.
C22_AtMostOneRowPerUser ==
    \A name \in Users : Len(user_preferences[name]) <= 1

\* C23: a DELETE on /preferences/{user} for an existing user, which no
\* request overlaps and in which no store call fails, writes nothing (status
\* 200, empty body) and leaves the user without a row; when the user had no
\* row it does not call deletePreferences and the store is as it was.
C23_DeleteIsNoOpWhenAbsent ==
    \A p \in PrefProcs :
        (PrefQuiet(p) /\ prefReq[p].method = "DELETE"
            /\ IsUser(prefReq[p].username)) =>
            LET name == prefReq[p].username
            IN /\ prefResp[p] = WroteNothing
               /\ user_preferences = [prefBefore EXCEPT ![name] = <<>>]
               /\ PrefDid(prefLog[p], "deletePreferences")
                      <=> Len(prefBefore[name]) > 0

\* C23's case: a DELETE removed the user's row and the DELETE that followed
\* it found nothing stored.
C23_Witness ==
    \E p \in PrefProcs :
        /\ PrefQuiet(p) /\ prefReq[p].method = "DELETE"
        /\ prefLast.method = "DELETE"
        /\ prefLast.username = prefReq[p].username
        /\ PrefDid(prefLast.log, "deletePreferences")
        /\ prefLast.resp = WroteNothing
        /\ prefLog[p] = <<"isUser", "hasPreferences">>
        /\ prefResp[p] = WroteNothing

\* ======================================================= AddUsernameSuffix
\* The characters of a username: a letter, the at sign and a line feed (a
\* path variable of the router holds any character but the slash).
NameChars == {"a", "@", "\n"}

\* The usernames of up to MaxNameLen characters.
Names == UNION {[1..n -> NameChars] : n \in 0..MaxNameLen}

\* Values of users.domain in the configuration; main replaces an empty
\* value by IplantSuffix, which begins with an at sign.
UserDomains == {<<"@", "d">>, <<"d">>, <<"d", "@">>, <<"d", "@", "e">>, <<"@">>}

\* The smallest element of a non-empty set of numbers.
Lowest(S) == CHOOSE i \in S : \A j \in S : i <= j

Highest(S) == CHOOSE i \in S : \A j \in S : i >= j

\* regexp.Compile(`@.*$`).ReplaceAllString(str, ""): the leftmost match
\* starts at the first at sign that no line feed follows, since . matches
\* no line feed and $ only the end of the text, and runs to the end.
ReplaceAllString(str) ==
    LET starts == {i \in 1..Len(str) :
                      /\ str[i] = "@"
                      /\ \A j \in (i + 1)..Len(str) : str[j] # "\n"}
    IN IF starts = {} THEN str ELSE SubSeq(str, 1, Lowest(starts) - 1)

\* strings.Trim(str, "@")
Trim(str) ==
    LET kept == {i \in 1..Len(str) : str[i] # "@"}
    IN IF kept = {} THEN <<>> ELSE SubSeq(str, Lowest(kept), Highest(kept))

\* BagsApp.AddUsernameSuffix, with domain = b.userDomain.
AddUsernameSuffix(name, domain) ==
    ReplaceAllString(name) \o <<"@">> \o Trim(domain)

\* Any username and any configured domain; the function has not run.
SuffixInit ==
    /\ BagsInit /\ NormIdle /\ AlertsIdle /\ PrefsIdle
    /\ SearchesIdle /\ AppIdle
    /\ rawUsername \in Names
    /\ userDomain \in UserDomains
    /\ suffixed = NoString
    /\ resuffixed = NoString

\* getUser calls b.AddUsernameSuffix(username).
Suffix ==
    /\ suffixed = NoString
    /\ suffixed' = String(AddUsernameSuffix(rawUsername, userDomain))
    /\ UNCHANGED <<rawUsername, userDomain, resuffixed>>
    /\ UNCHANGED <<bagVars, normVars, alertVars, prefVars, searchVars,
                   appVars>>

\* A later request names the user by the result.
SuffixAgain ==
    /\ suffixed.ran
    /\ resuffixed = NoString
    /\ resuffixed' = String(AddUsernameSuffix(suffixed.str, userDomain))
    /\ UNCHANGED <<rawUsername, userDomain, suffixed>>
    /\ UNCHANGED <<bagVars, normVars, alertVars, prefVars, searchVars,
                   appVars>>

SuffixNext == Suffix \/ SuffixAgain

SuffixSpec == SuffixInit /\ [][SuffixNext]_vars

\* ------------------------------------------- claims: AddUsernameSuffix
\* The part of str before its first at sign; all of str when it has none.
BeforeFirstAt(str) ==
    LET ats == {i \in 1..Len(str) : str[i] = "@"}
    IN IF ats = {} THEN str ELSE SubSeq(str, 1, Lowest(ats) - 1)

\* C30: AddUsernameSuffix returns the part of the username before its first
\* at sign, an at sign, and the domain without its leading and trailing at
\* signs; applied to its own result it returns that result.
C30_SuffixReplaced ==
    /\ suffixed.ran =>
          suffixed.str =
              BeforeFirstAt(rawUsername) \o <<"@">> \o Trim(userDomain)
    /\ resuffixed.ran => resuffixed = suffixed

\* ============================================================ saved searches
\* The texts a caller stores as saved searches.
SearchTexts == {"{}", "{\"a\":1}"}

\* The ways a SearchesDB call goes: every access works, the queries.UserID
\* lookup fails, or the statement fails.
SearchOutcomes == {"ok", "UserID", "Exec"}

\* SearchesDB.insertSavedSearches: the rows it leaves and the error it
\* returns.
insertSavedSearches(table, name, searches, f) ==
    IF f # "ok" THEN [table |-> table, err |-> "store error"]
    ELSE [table |-> [table EXCEPT ![name] = Append(@, searches)],
          err |-> "nil"]

\* SearchesDB.updateSavedSearches
updateSavedSearches(table, name, searches, f) ==
    IF f # "ok" THEN [table |-> table, err |-> "store error"]
    ELSE [table |-> [table EXCEPT ![name] = [i \in DOMAIN @ |-> searches]],
          err |-> "nil"]

\* SearchesDB.deleteSavedSearches: `return nil` when queries.UserID fails.
deleteSavedSearches(table, name, f) ==
    CASE f = "UserID" -> [table |-> table, err |-> "nil"]
      [] f = "Exec" -> [table |-> table, err |-> "store error"]
      [] OTHER -> [table |-> [table EXCEPT ![name] = <<>>], err |-> "nil"]

\* The call made, the access that failed in it and the error returned.
SearchCalled(o, name, f, e) ==
    [op |-> o, username |-> name, fault |-> f, err |-> e]

SearchInit ==
    /\ BagsInit /\ NormIdle /\ AlertsIdle /\ PrefsIdle
    /\ SuffixIdle /\ AppIdle
    /\ user_saved_searches = [u \in Usernames |-> <<>>]
    /\ searchCall = NoSearchCall

\* A caller inserts saved searches for a user.
InsertSavedSearches ==
    /\ \E name \in Usernames, text \in SearchTexts, f \in SearchOutcomes :
          LET r == insertSavedSearches(user_saved_searches, name, text, f)
          IN /\ Len(user_saved_searches[name]) < MaxSearches
             /\ user_saved_searches' = r.table
             /\ searchCall' = SearchCalled("insertSavedSearches", name, f, r.err)
    /\ UNCHANGED <<bagVars, normVars, alertVars, prefVars, suffixVars,
                   appVars>>

\* A caller updates the saved searches of a user.
UpdateSavedSearches ==
    /\ \E name \in Usernames, text \in SearchTexts, f \in SearchOutcomes :
          LET r == updateSavedSearches(user_saved_searches, name, text, f)
          IN /\ user_saved_searches' = r.table
             /\ searchCall' = SearchCalled("updateSavedSearches", name, f, r.err)
    /\ UNCHANGED <<bagVars, normVars, alertVars, prefVars, suffixVars,
                   appVars>>

\* A caller deletes the saved searches of a user.
DeleteSavedSearches ==
    /\ \E name \in Usernames, f \in SearchOutcomes :
          LET r == deleteSavedSearches(user_saved_searches, name, f)
          IN /\ user_saved_searches' = r.table
             /\ searchCall' = SearchCalled("deleteSavedSearches", name, f, r.err)
    /\ UNCHANGED <<bagVars, normVars, alertVars, prefVars, suffixVars,
                   appVars>>

SearchNext ==
    \/ InsertSavedSearches
    \/ UpdateSavedSearches
    \/ DeleteSavedSearches

SearchSpec == SearchInit /\ [][SearchNext]_vars

\* ------------------------------------------------ claims: saved searches
\* C28: a store operation in which the user-ID lookup or the statement
\* failed returns an error that is not nil.
C28_FailureIsSurfaced ==
    (searchCall.op # "none" /\ searchCall.fault # "ok") =>
        searchCall.err # "nil"

\* ============================================================ bags handlers
\* The handlers of src/bags.go. A request is served in one step: the handler
\* calls getUser and the BagsAPI functions on the tables bags and
\* default_bags, any store access of which may fail, and writes its response.
\* The router binds {username} and {bagID} for every route that names them.

\* What the handler writes: texts (http.Error writes the message as
\* text/plain) and JSON documents.
Text(msg) == [kind |-> "text", msg |-> msg]

JSON(v) == [kind |-> "json", v |-> v]

\* http.Error(w, msg, code): the status is set unless one was sent before,
\* and the message is written to the body.
HTTPError(w, msg, code) ==
    [status |-> IF w.status = 0 THEN code ELSE w.status,
     body |-> Append(w.body, Text(msg))]

\* errored(w, msg): status 500 and the message.
errored(w, msg) == HTTPError(w, msg, 500)

\* badRequest(w, msg): status 400 and the message.
badRequest(w, msg) == HTTPError(w, msg, 400)

\* writer.Write(bytes): status 200 unless one was sent before.
Write(w, chunk) ==
    [status |-> IF w.status = 0 THEN 200 ELSE w.status,
     body |-> Append(w.body, chunk)]

\* writer.WriteHeader(code): ignored when a status was sent before.
WriteHeader(w, code) ==
    [w EXCEPT !.status = IF w.status = 0 THEN code ELSE w.status]

\* The status the client receives: 200 when the handler set none.
StatusSent(w) == IF w.status = 0 THEN 200 ELSE w.status

\* The usernames of the request paths: alice's name and a name that is no
\* user's.
PathNames == {<<"a">>, <<"c">>}

\* The row of users whose username is the qualified name, as Usernames
\* names it; NoUsername when there is none.
Account(qualified) ==
    IF qualified = <<"a", "@", "d">> THEN "alice" ELSE NoUsername

\* The request bodies: a text that is not JSON, and bag contents.
GarbageBody == "not json"

AppBodies == {GarbageBody} \cup Bodies

\* json.Unmarshal(body, &bag) returns no error.
Decodes(body) == body # GarbageBody

\* The outcome of a store access that the call makes for name, when f is the
\* outcome of the store: the queries.UserID lookup of a name that is no
\* user's finds no row and returns an error.
Access(name, f) == IF name = NoUsername /\ f = "ok" THEN "UserID" ELSE f

\* The store accesses of one BagsAPI call of a handler, one of which may
\* fail: call is the call of the handler it belongs to (0: none fails).
NoFault == [call |-> 0, at |-> "ok"]

Fault(call, at) == [call |-> call, at |-> at]

Faults(call, ats) == {Fault(call, at) : at \in ats}

\* The outcome g gives to the access `at` of the call-th call, taken as the
\* failure `as` of the function that makes the access.
At(g, call, at, as) == IF g = Fault(call, at) THEN as ELSE "ok"

\* BagsApp.getUser; f is the outcome of queries.IsUser. The username it
\* returns is named as Usernames names the user.
getUser(path, f) ==
    LET qualified == AddUsernameSuffix(path, userDomain) IN
    CASE f # "ok" ->
           [username |-> NoUsername, status |-> 500,
            err |-> "error checking for bags"]
      [] Account(qualified) = NoUsername ->
           [username |-> NoUsername, status |-> 404,
            err |-> "user does not exist"]
      [] OTHER ->
           [username |-> Account(qualified), status |-> 200, err |-> "nil"]

\* The rows of bags joined with the users row of name.
BagsOf(b, name) == {r \in b : r.user_id = UserID(name)}

\* BagsAPI.HasBags
HasBags(b, name, f) ==
    IF f = "Query" THEN [has |-> FALSE, err |-> "HasBags: store error"]
    ELSE [has |-> Cardinality(BagsOf(b, name)) > 0, err |-> "nil"]

\* BagsAPI.HasBag
HasBag(b, name, bid, f) ==
    IF f = "Query" THEN [has |-> FALSE, err |-> "HasBag: store error"]
    ELSE [has |-> Cardinality({r \in BagsOf(b, name) : r.id = bid}) > 0,
          err |-> "nil"]

\* BagsAPI.GetBags
GetBags(b, name, f) ==
    IF f = "Query" THEN [bags |-> {}, err |-> "GetBags: store error"]
    ELSE [bags |-> BagsOf(b, name), err |-> "nil"]

\* BagsAPI.GetBag
GetBag(b, name, bid, f) ==
    LET rows == {r \in BagsOf(b, name) : r.id = bid} IN
    CASE f = "Query" -> [record |-> ZeroRecord, err |-> "GetBag: store error"]
      [] rows = {} -> [record |-> ZeroRecord, err |-> "GetBag: sql.ErrNoRows"]
      [] OTHER ->
           LET r == CHOOSE x \in rows : TRUE IN
           [record |-> [ID |-> r.id, Contents |-> r.contents,
                        UserID |-> r.user_id],
            err |-> "nil"]

\* The tables a call leaves and the values it returns.
Tables(b, d, nxt) == [bags |-> b, default_bags |-> d, next |-> nxt]

Outcome(t, rec, e) == [t |-> t, record |-> rec, err |-> e]

\* BagsAPI.createDefaultBag as one call; the accesses of the call-th call of
\* the handler fail as g says.
createDefaultBag(t, name, g, call) ==
    LET rec == [ZeroRecord EXCEPT !.Contents = DefaultContents]
        a == AddBag(t.bags, t.next, name, DefaultContents,
                    Access(name,
                        IF g = Fault(call, "AddBag.UserID") THEN "UserID"
                        ELSE At(g, call, "AddBag.Exec", "Exec")))
        added == Tables(a.bags, t.default_bags, a.next)
        sdb == SetDefaultBag(t.default_bags, name, a.bagID,
                    Access(name,
                        IF g = Fault(call, "SetDefaultBag.UserID") THEN "UserID"
                        ELSE At(g, call, "SetDefaultBag.Exec", "Exec")))
        set == Tables(a.bags, sdb.default_bags, a.next)
    IN CASE a.err # "nil" -> Outcome(added, rec, a.err)
         [] sdb.err # "nil" ->
              Outcome(added, [rec EXCEPT !.ID = a.bagID], sdb.err)
         [] Access(name, At(g, call, "createDefaultBag.UserID", "UserID"))
                # "ok" ->
              Outcome(set, [rec EXCEPT !.ID = a.bagID],
                      "createDefaultBag: store error")
         [] OTHER ->
              Outcome(set, [rec EXCEPT !.ID = a.bagID,
                                       !.UserID = UserID(name)], "nil")

\* BagsAPI.GetDefaultBag as one call.
GetDefaultBag(t, name, g, call) ==
    LET h == HasDefaultBag(t.default_bags, name,
                           At(g, call, "HasDefaultBag", "Query"))
        r == ScanDefaultBag(t.bags, t.default_bags, name,
                            At(g, call, "Scan", "Query"))
    IN CASE h.err # "nil" -> Outcome(t, ZeroRecord, h.err)
         [] h.has -> Outcome(t, r.record, r.err)
         [] OTHER -> createDefaultBag(t, name, g, call)

\* BagsAPI.UpdateDefaultBag as one call.
UpdateDefaultBag(t, name, c, g, call) ==
    LET got == GetDefaultBag(t, name, g, call)
        u == UpdateBag(got.t.bags, name, got.record.ID, c,
                       Access(name,
                           IF g = Fault(call, "UpdateBag.UserID") THEN "UserID"
                           ELSE At(g, call, "UpdateBag.Exec", "Exec")))
    IN IF got.err # "nil" THEN Outcome(got.t, got.record, got.err)
       ELSE Outcome([got.t EXCEPT !.bags = u.bags], got.record, u.err)

\* BagsAPI.DeleteDefaultBag as one call.
DeleteDefaultBag(t, name, g, call) ==
    LET got == GetDefaultBag(t, name, g, call)
        del == DeleteBag(got.t.bags, name, got.record.ID,
                         Access(name,
                             IF g = Fault(call, "DeleteBag.UserID") THEN "UserID"
                             ELSE At(g, call, "DeleteBag.Exec", "Exec")))
    IN IF got.err # "nil" THEN Outcome(got.t, got.record, got.err)
       ELSE Outcome([got.t EXCEPT !.bags = del.bags], got.record, del.err)

\* The store accesses of the composite calls.
GetDefaultBagAccesses ==
    {"HasDefaultBag", "Scan", "AddBag.UserID", "AddBag.Exec",
     "SetDefaultBag.UserID", "SetDefaultBag.Exec", "createDefaultBag.UserID"}

UpdateDefaultBagAccesses ==
    GetDefaultBagAccesses \cup {"UpdateBag.UserID", "UpdateBag.Exec"}

DeleteDefaultBagAccesses ==
    GetDefaultBagAccesses \cup {"DeleteBag.UserID", "DeleteBag.Exec"}

\* The store accesses of the GetDefaultBag call that follows a successful
\* UpdateDefaultBag or DeleteDefaultBag: that call left a default_bags row.
RereadAccesses == {"HasDefaultBag", "Scan"}

\* A call the handler made and the error it returned.
Called(o, e) == [op |-> o, err |-> e]

\* The tables as they are.
Stored == Tables(bags, default_bags, nextBagID)

\* `http.Error(writer, err.Error(), status)` after getUser, when it failed.
AfterGetUser(u) ==
    IF u.err # "nil" THEN HTTPError(NoResponse, u.err, u.status)
    ELSE NoResponse

\* The handler has run: the request, what it wrote, the calls it made and
\* the tables it left. No step generates a bag ID above MaxCalls.
Serve(req, w, log, t) ==
    /\ t.next <= MaxCalls + 1
    /\ appReq' = req
    /\ appResp' = w
    /\ appLog' = log
    /\ bags' = t.bags
    /\ default_bags' = t.default_bags
    /\ nextBagID' = t.next
    /\ UNCHANGED <<pc, op, username, bagID, contents, hasDefault, record, err,
                   faults, calls, pre, last>>
    /\ UNCHANGED <<normVars, alertVars, prefVars, suffixVars, searchVars>>

Request(handler, path, f) ==
    [handler |-> handler, username |-> path, isUser |-> f]

\* The outcomes of queries.IsUser in getUser.
IsUserOutcomes == {"ok", "IsUser"}

\* BagsApp.GetBags
HandleGetBags ==
    \E path \in PathNames, f \in IsUserOutcomes,
       g \in {NoFault} \cup Faults(1, {"Query"}) :
        \E u \in {getUser(path, f)} :
        LET w == AfterGetUser(u)
            r == GetBags(bags, u.username, At(g, 1, "Query", "Query"))
        IN IF u.err # "nil"
           THEN Serve(Request("GetBags", path, f), w,
                      <<Called("getUser", u.err)>>, Stored)
           ELSE Serve(Request("GetBags", path, f),
                      IF r.err # "nil"
                      THEN HTTPError(w, "error getting bags", 500)
                      ELSE Write(w, JSON(r.bags)),
                      <<Called("getUser", u.err), Called("GetBags", r.err)>>,
                      Stored)

\* BagsApp.GetBag
HandleGetBag ==
    \E path \in PathNames, bid \in KnownBagIDs, f \in IsUserOutcomes,
       g \in {NoFault} \cup Faults(1, {"Query"}) \cup Faults(2, {"Query"}) :
        \E u \in {getUser(path, f)} :
        LET w == AfterGetUser(u)
            h == HasBag(bags, u.username, bid, At(g, 1, "Query", "Query"))
            r == GetBag(bags, u.username, bid, At(g, 2, "Query", "Query"))
            req == [Request("GetBag", path, f) EXCEPT !.handler = "GetBag"]
        IN CASE h.err # "nil" ->
                  Serve(req, badRequest(w, "error checking database for bag"),
                        <<Called("getUser", u.err), Called("HasBag", h.err)>>,
                        Stored)
             [] ~h.has ->
                  Serve(req, HTTPError(w, "bag not found", 404),
                        <<Called("getUser", u.err), Called("HasBag", h.err)>>,
                        Stored)
             [] OTHER ->
                  Serve(req,
                        IF r.err # "nil"
                        THEN HTTPError(w, "error getting bags", 500)
                        ELSE Write(w, JSON(r.record)),
                        <<Called("getUser", u.err), Called("HasBag", h.err),
                          Called("GetBag", r.err)>>,
                        Stored)

\* BagsApp.GetDefaultBag
HandleGetDefaultBag ==
    \E path \in PathNames, f \in IsUserOutcomes,
       g \in {NoFault} \cup Faults(1, GetDefaultBagAccesses) :
        \E u \in {getUser(path, f)} :
        LET w == AfterGetUser(u)
            r == GetDefaultBag(Stored, u.username, g, 1)
        IN Serve(Request("GetDefaultBag", path, f),
                 IF r.err # "nil"
                 THEN HTTPError(w, "error getting default bag", 500)
                 ELSE Write(w, JSON(r.record)),
                 <<Called("getUser", u.err), Called("GetDefaultBag", r.err)>>,
                 r.t)

\* BagsApp.AddBag
HandleAddBag ==
    \E path \in PathNames, body \in AppBodies, f \in IsUserOutcomes,
       g \in {NoFault} \cup Faults(1, {"UserID", "Exec"}) :
        \E u \in {getUser(path, f)} :
        LET w == AfterGetUser(u)
            a == AddBag(bags, nextBagID, u.username, body,
                        Access(u.username,
                               IF g = Fault(1, "UserID") THEN "UserID"
                               ELSE At(g, 1, "Exec", "Exec")))
            req == [handler |-> "AddBag", username |-> path, isUser |-> f,
                    body |-> body]
        IN IF ~Decodes(body)
           THEN Serve(req, badRequest(w, "failed to JSON decode body"),
                      <<Called("getUser", u.err)>>, Stored)
           ELSE Serve(req,
                      IF a.err # "nil"
                      THEN errored(w, "failed to add bag")
                      ELSE Write(w, JSON([id |-> a.bagID])),
                      <<Called("getUser", u.err), Called("AddBag", a.err)>>,
                      Tables(a.bags, default_bags, a.next))

\* BagsApp.UpdateBag
HandleUpdateBag ==
    \E path \in PathNames, bid \in KnownBagIDs, body \in AppBodies,
       f \in IsUserOutcomes,
       g \in {NoFault} \cup Faults(1, {"Query"})
               \cup Faults(2, {"UserID", "Exec"}) :
        \E u \in {getUser(path, f)} :
        LET w == AfterGetUser(u)
            h == HasBag(bags, u.username, bid, At(g, 1, "Query", "Query"))
            r == UpdateBag(bags, u.username, bid, body,
                           Access(u.username,
                                  IF g = Fault(2, "UserID") THEN "UserID"
                                  ELSE At(g, 2, "Exec", "Exec")))
            req == [handler |-> "UpdateBag", username |-> path, isUser |-> f,
                    body |-> body]
            checked == <<Called("getUser", u.err), Called("HasBag", h.err)>>
        IN CASE h.err # "nil" ->
                  Serve(req, badRequest(w, "error checking database for bag"),
                        checked, Stored)
             [] ~h.has ->
                  Serve(req, HTTPError(w, "bag not found", 404), checked,
                        Stored)
             [] ~Decodes(body) ->
                  Serve(req, errored(w, "failed to JSON decode body"),
                        checked, Stored)
             [] OTHER ->
                  Serve(req,
                        IF r.err # "nil"
                        THEN errored(w, "error updating bag") ELSE w,
                        Append(checked, Called("UpdateBag", r.err)),
                        Tables(r.bags, default_bags, nextBagID))

\* BagsApp.UpdateDefaultBag
HandleUpdateDefaultBag ==
    \E path \in PathNames, body \in AppBodies, f \in IsUserOutcomes,
       g \in {NoFault} \cup Faults(1, UpdateDefaultBagAccesses)
               \cup Faults(2, RereadAccesses) :
        \E u \in {getUser(path, f)} :
        LET w == AfterGetUser(u)
            r == UpdateDefaultBag(Stored, u.username, body, g, 1)
            n == GetDefaultBag(r.t, u.username, g, 2)
            req == [handler |-> "UpdateDefaultBag", username |-> path,
                    isUser |-> f, body |-> body]
            updated == <<Called("getUser", u.err),
                         Called("UpdateDefaultBag", r.err)>>
        IN CASE ~Decodes(body) ->
                  Serve(req, errored(w, "failed to JSON decode body"),
                        <<Called("getUser", u.err)>>, Stored)
             [] r.err # "nil" ->
                  Serve(req, errored(w, "error updating default bag"),
                        updated, r.t)
             [] OTHER ->
                  Serve(req,
                        IF n.err # "nil"
                        THEN errored(w, "error getting new bag value")
                        ELSE Write(w, JSON(n.record)),
                        Append(updated, Called("GetDefaultBag", n.err)),
                        n.t)

\* BagsApp.DeleteBag
HandleDeleteBag ==
    \E path \in PathNames, bid \in KnownBagIDs, f \in IsUserOutcomes,
       g \in {NoFault} \cup Faults(1, {"UserID", "Exec"}) :
        \E u \in {getUser(path, f)} :
        LET w == AfterGetUser(u)
            r == DeleteBag(bags, u.username, bid,
                           Access(u.username,
                                  IF g = Fault(1, "UserID") THEN "UserID"
                                  ELSE At(g, 1, "Exec", "Exec")))
        IN Serve(Request("DeleteBag", path, f),
                 IF r.err # "nil" THEN errored(w, "error deleting bag") ELSE w,
                 <<Called("getUser", u.err), Called("DeleteBag", r.err)>>,
                 Tables(r.bags, default_bags, nextBagID))

\* BagsApp.DeleteDefaultBag
HandleDeleteDefaultBag ==
    \E path \in PathNames, f \in IsUserOutcomes,
       g \in {NoFault} \cup Faults(1, DeleteDefaultBagAccesses)
               \cup Faults(2, RereadAccesses) :
        \E u \in {getUser(path, f)} :
        LET w == AfterGetUser(u)
            r == DeleteDefaultBag(Stored, u.username, g, 1)
            n == GetDefaultBag(r.t, u.username, g, 2)
            deleted == <<Called("getUser", u.err),
                         Called("DeleteDefaultBag", r.err)>>
        IN IF r.err # "nil"
           THEN Serve(Request("DeleteDefaultBag", path, f),
                      errored(w, "error deleting default bag"), deleted, r.t)
           ELSE Serve(Request("DeleteDefaultBag", path, f),
                      IF n.err # "nil"
                      THEN errored(w, "error getting new bag value")
                      ELSE Write(w, JSON(n.record)),
                      Append(deleted, Called("GetDefaultBag", n.err)),
                      n.t)

\* BagsApp.DeleteAllBags
HandleDeleteAllBags ==
    \E path \in PathNames, f \in IsUserOutcomes,
       g \in {NoFault} \cup Faults(1, {"UserID", "Exec"}) :
        \E u \in {getUser(path, f)} :
        LET w == AfterGetUser(u)
            r == DeleteAllBags(bags, u.username,
                               Access(u.username,
                                      IF g = Fault(1, "UserID") THEN "UserID"
                                      ELSE At(g, 1, "Exec", "Exec")))
        IN Serve(Request("DeleteAllBags", path, f),
                 IF r.err # "nil" THEN errored(w, "error deleting bag") ELSE w,
                 <<Called("getUser", u.err), Called("DeleteAllBags", r.err)>>,
                 Tables(r.bags, default_bags, nextBagID))

\* BagsApp.HasBags
HandleHasBags ==
    \E path \in PathNames, f \in IsUserOutcomes,
       g \in {NoFault} \cup Faults(1, {"Query"}) :
        \E u \in {getUser(path, f)} :
        LET w == AfterGetUser(u)
            r == HasBags(bags, u.username, At(g, 1, "Query", "Query"))
        IN Serve(Request("HasBags", path, f),
                 IF r.err # "nil" THEN errored(w, "error looking for bags")
                 ELSE WriteHeader(w, IF r.has THEN 200 ELSE 404),
                 <<Called("getUser", u.err), Called("HasBags", r.err)>>,
                 Stored)

\* The tables are empty and no request was served; the domain is the default.
AppInit ==
    /\ BagsInit /\ NormIdle /\ AlertsIdle /\ PrefsIdle
    /\ SuffixIdle /\ SearchesIdle /\ AppIdle

AppNext ==
    \/ HandleGetBags
    \/ HandleGetBag
    \/ HandleGetDefaultBag
    \/ HandleAddBag
    \/ HandleUpdateBag
    \/ HandleUpdateDefaultBag
    \/ HandleDeleteBag
    \/ HandleDeleteDefaultBag
    \/ HandleDeleteAllBags
    \/ HandleHasBags

AppSpec == AppInit /\ [][AppNext]_vars

\* ------------------------------------------------ claims: the bags handlers
\* A handler of bags.go has answered a request.
Answered == appReq.handler # "none"

\* The request named a user that does not exist: IsUser answered false.
UnknownUser == Answered /\ appLog[1] = Called("getUser", "user does not exist")

\* C24: a request on a /bags/{username} route that names a user that does
\* not exist is answered with status 404 and a JSON body identifying the
\* username, and nothing else is written to the response.
C24_NonUserIs404 ==
    UnknownUser =>
        /\ appResp.status = 404
        /\ Len(appResp.body) = 1
        /\ appResp.body[1].kind = "json"

\* C25: a bag handler aborts on its first error: no call follows a call that
\* returned an error (none follows a failed getUser), and the handler writes
\* to the response at most once.
C25_AbortsOnFirstError ==
    Answered =>
        /\ \A i \in 1..(Len(appLog) - 1) : appLog[i].err = "nil"
        /\ Len(appResp.body) <= 1

\* The error of a store or user-lookup operation.
StoreError(e) == e \notin {"nil", "user does not exist"}

\* C26: when the first error of a bag handler is the error of a store or
\* user-lookup operation, the response has status 500 and carries a text.
C26_StoreErrorIs500 ==
    Answered =>
        \A i \in 1..Len(appLog) :
            (/\ StoreError(appLog[i].err)
             /\ \A j \in 1..(i - 1) : appLog[j].err = "nil")
                => /\ StatusSent(appResp) = 500
                   /\ Len(appResp.body) >= 1
                   /\ appResp.body[1].kind = "text"

\* The handler decoded a body that is not JSON: it takes a body, no call it
\* made before failed, and the user and the bag of the path exist.
MalformedBody ==
    /\ appReq.handler \in {"AddBag", "UpdateBag", "UpdateDefaultBag"}
    /\ appReq.body = GarbageBody
    /\ \A i \in 1..Len(appLog) : appLog[i].err = "nil"
    /\ StatusSent(appResp) # 404

\* C27: a bag add, bag update or default-bag update whose body is not valid
\* JSON is answered with status 400 and leaves the tables as they were.
C27_MalformedBodyIs400 ==
    [][MalformedBody' =>
          /\ StatusSent(appResp') = 400
          /\ UNCHANGED <<bags, default_bags, nextBagID>>]_vars


=============================================================================
